---- MODULE Spec2Model ----
(***************************************************************************)
(* Model of the deployment orchestrator of proxmox-homelab-template:       *)
(*   - ServiceDiscovery.get_deployment_order (scripts/lib/                 *)
(*     service_discovery.py), the dependency resolver;                     *)
(*   - ProxmoxDeployer (scripts/lib/deployment.py), the per-service        *)
(*     provisioning sequence, its waiters and the bootstrap remediation;   *)
(*   - deploy_services_impl (scripts/deploy.py), the run over a plan.      *)
(***************************************************************************)
EXTENDS Integers, Sequences, FiniteSets, TLC

(***************************************************************************)
(* Universe of service names and bounds of the model.                      *)
(***************************************************************************)
Names == {"pihole", "vpn-gateway", "authentik"}

\* longest requested list handed to get_deployment_order
MaxReq == 3

\* longest content handed to _upload_file_to_container, in characters
MaxContent == 4

\* longest plan handed to deploy_services_impl
MaxPlan == 3

\* the services a plan is made of.  deploy_services_impl treats every
\* service alike and get_deployment_order returns a name once, so the plans
\* are the prefixes of one enumeration.
Fleet == <<"pihole", "vpn-gateway", "authentik", "homepage">>

\* largest `timeout` argument of a waiter called on its own
MaxTimeout == 5

Range(s) == {s[i] : i \in 1..Len(s)}

\* duplicate-free sequences over S of length n
RECURSIVE Perms(_, _)
Perms(S, n) ==
    IF n = 0 THEN {<<>>}
    ELSE UNION {{<<x>> \o p : p \in Perms(S \ {x}, n - 1)} : x \in S}

\* sequences over S of length at most n
SeqUpTo(S, n) == UNION {[1..k -> S] : k \in 0..n}

\* values of ServiceInfo.dependencies: the "required" list of service.json
DepLists == Perms(Names, 0) \cup Perms(Names, 1) \cup Perms(Names, 2)

\* what get_service_info returns: None (ok = FALSE) or a ServiceInfo
NoInfo == [ok |-> FALSE, dependencies |-> <<>>]
Infos == {NoInfo} \cup {[ok |-> TRUE, dependencies |-> d] : d \in DepLists}

VARIABLES
    \* ---- get_deployment_order ----
    services,       \* the requested list (argument `services`)
    info,           \* name -> result of get_service_info(name)
    service_deps,   \* dict built by lines 165-171
    ordered,        \* list `ordered`
    visited,        \* set `visited`
    visiting,       \* set `visiting`
    stack,          \* call stack of visit(): frames [service, phase, k]
    top,            \* index of the `for service in services` loop, line 198
    warned,         \* services for which the circular-dependency warning was printed
    rpc             \* position in get_deployment_order

ovars == <<services, info, service_deps, ordered, visited, visiting, stack,
           top, warned, rpc>>

VARIABLES
    \* ---- deploy_services_impl / ProxmoxDeployer ----
    plan,           \* argument `services` of deploy_services_impl
    cur,            \* index of `for service_name in services`
    pc,             \* position in the run
    cluster,        \* the node: containers that exist, bridge present
    calls,          \* mutating requests issued so far, by kind
    attempted,      \* services handed to deploy_single_service, in order
    deployed,       \* services for which deploy_single_service returned
    w,              \* locals of the waiter loop in progress (or last run)
    bs,             \* what _install_docker_in_container did for this service
    error,          \* the exception that left deploy_single_service, if any
    cfg,            \* container.json as loaded, flat_config / container_config
                    \* and create_params of the _create_container in progress
    pre             \* how often setup_networking and setup_storage were called

dvars == <<plan, cur, pc, cluster, calls, attempted, deployed, w, bs, error,
           cfg, pre>>

VARIABLES
    \* ---- _upload_file_to_container on its own ----
    up,             \* content, the command built from it, the file written
    \* ---- the deploy command ----
    cmd             \* options, the services on disk, position, exit code

xvars == <<up, cmd>>

vars == <<ovars, dvars, xvars>>

(***************************************************************************)
(* get_deployment_order, service_discovery.py:162-201                      *)
(***************************************************************************)

\* line 168: `if service_info:`
get_service_info(name) == info[name]

\* line 170: [dep for dep in service_info.dependencies if dep in services]
KeepAllDeps(deps, svcs) == deps
FilterDeps(deps, svcs) == SelectSeq(deps, LAMBDA d : d \in Range(svcs))

\* lines 165-171: the dependency graph, a dict keyed by the loadable services
BuildServiceDeps(svcs) ==
    [s \in {n \in Range(svcs) : get_service_info(n).ok} |->
        FilterDeps(get_service_info(s).dependencies, svcs)]

\* line 189: service_deps.get(service, [])
DepsOf(s) == IF s \in DOMAIN service_deps THEN service_deps[s] ELSE <<>>

\* line 179: `if service in visiting`
InVisiting(s, vg) == s \in vg

\* line 183: `if service in visited`
IsVisitedNever(s, vd) == FALSE
IsVisited(s, vd) == s \in vd

\* line 198: the service of the i-th iteration of `for service in services`
LoopItemReversed(svcs, i) == svcs[Len(svcs) - i + 1]
LoopItem(svcs, i) == svcs[i]

\* line 194: visited.add(service)
MarkVisitedOmitted(vd, s) == vd
MarkVisited(vd, s) == vd \cup {s}

\* line 195: ordered.append(service)
PrependOrdered(ord, s) == <<s>> \o ord
AppendOrdered(ord, s) == Append(ord, s)

Frame(s) == [service |-> s, phase |-> "entry", k |-> 1]
Top == stack[Len(stack)]
Pop == SubSeq(stack, 1, Len(stack) - 1)

\* lines 164-176: build the graph, initialise ordered/visited/visiting
BuildGraph ==
    /\ rpc = "start"
    /\ service_deps' = BuildServiceDeps(services)
    /\ ordered' = <<>>
    /\ visited' = {}
    /\ visiting' = {}
    /\ rpc' = "loop"
    /\ UNCHANGED <<services, info, stack, top, warned>>
    /\ UNCHANGED <<dvars, xvars>>

\* lines 198-199: `for service in services: visit(service)`
CallVisit ==
    /\ rpc = "loop"
    /\ stack = <<>>
    /\ top <= Len(services)
    /\ stack' = <<Frame(LoopItem(services, top))>>
    /\ top' = top + 1
    /\ UNCHANGED <<services, info, service_deps, ordered, visited, visiting,
                   warned, rpc>>
    /\ UNCHANGED <<dvars, xvars>>

\* lines 179-181: the service is on the traversal path: warn and return
VisitCycle ==
    /\ rpc = "loop"
    /\ stack # <<>>
    /\ Top.phase = "entry"
    /\ InVisiting(Top.service, visiting)
    /\ warned' = warned \cup {Top.service}
    /\ stack' = Pop
    /\ UNCHANGED <<services, info, service_deps, ordered, visited, visiting,
                   top, rpc>>
    /\ UNCHANGED <<dvars, xvars>>

\* lines 183-184: already expanded: return
VisitDone ==
    /\ rpc = "loop"
    /\ stack # <<>>
    /\ Top.phase = "entry"
    /\ ~InVisiting(Top.service, visiting)
    /\ IsVisited(Top.service, visited)
    /\ stack' = Pop
    /\ UNCHANGED <<services, info, service_deps, ordered, visited, visiting,
                   top, warned, rpc>>
    /\ UNCHANGED <<dvars, xvars>>

\* line 186: visiting.add(service), then enter the loop over the dependencies
VisitEnter ==
    /\ rpc = "loop"
    /\ stack # <<>>
    /\ Top.phase = "entry"
    /\ ~InVisiting(Top.service, visiting)
    /\ ~IsVisited(Top.service, visited)
    /\ visiting' = visiting \cup {Top.service}
    /\ stack' = [stack EXCEPT ![Len(stack)].phase = "deps"]
    /\ UNCHANGED <<services, info, service_deps, ordered, visited, top,
                   warned, rpc>>
    /\ UNCHANGED <<dvars, xvars>>

\* lines 189-191: next dependency; visit it if it is in the requested list
VisitDep ==
    /\ rpc = "loop"
    /\ stack # <<>>
    /\ Top.phase = "deps"
    /\ Top.k <= Len(DepsOf(Top.service))
    /\ LET dep == DepsOf(Top.service)[Top.k]
           adv == [stack EXCEPT ![Len(stack)].k = @ + 1]
       IN  stack' = IF dep \in Range(services)
                    THEN Append(adv, Frame(dep))
                    ELSE adv
    /\ UNCHANGED <<services, info, service_deps, ordered, visited, visiting,
                   top, warned, rpc>>
    /\ UNCHANGED <<dvars, xvars>>

\* lines 193-195: all dependencies traversed: leave the path, append
VisitExit ==
    /\ rpc = "loop"
    /\ stack # <<>>
    /\ Top.phase = "deps"
    /\ Top.k > Len(DepsOf(Top.service))
    /\ visiting' = visiting \ {Top.service}
    /\ visited' = MarkVisited(visited, Top.service)
    /\ ordered' = AppendOrdered(ordered, Top.service)
    /\ stack' = Pop
    /\ UNCHANGED <<services, info, service_deps, top, warned, rpc>>
    /\ UNCHANGED <<dvars, xvars>>

\* line 201: return ordered
ReturnOrdered ==
    /\ rpc = "loop"
    /\ stack = <<>>
    /\ top > Len(services)
    /\ rpc' = "done"
    /\ UNCHANGED <<services, info, service_deps, ordered, visited, visiting,
                   stack, top, warned>>
    /\ UNCHANGED <<dvars, xvars>>

(***************************************************************************)
(* ProxmoxDeployer, deployment.py, and deploy_services_impl, deploy.py     *)
(***************************************************************************)

\* _wait_for_task(task_id, timeout = 300), deployment.py:427
TaskTimeoutDefault == 300

\* _wait_for_container_ready(container_id, timeout = 180), deployment.py:391
ReadyTimeoutDefault == 180

\* the 11 entries of `commands`, deployment.py:326-338
NumInstallCommands == 11

\* how a call of the cluster control API ends: it returns or it raises
ApiOutcomes == {"ok", "error"}

\* how subprocess.run(['pct', 'exec', ...]) ends, deployment.py:356-371:
\* exit code 0, a non-zero exit code, TimeoutExpired
ExecOutcomes == {"ok", "nonzero", "timeout"}

\* task['status'] / task.get('exitstatus') seen by one poll, or the query raises
TaskStatuses == {"running", "stopped_ok", "stopped_fail", "error"}

\* status['status'] seen by one poll of the container, or the query raises
ContainerStatuses == {"running", "stopped", "error"}

\* deploy.py:191 / 220: the service of the i-th iteration of
\* `for service_name in services`
PlanItemReversed(p, i) == p[Len(p) - i + 1]
PlanItem(p, i) == p[i]

\* the service_name of the iteration in progress
Cur == PlanItem(plan, cur)

NoError == [kind |-> "none", at |-> "none", state |-> "none", cause |-> "none",
            raised |-> "none"]

NoWait == [kind |-> "none", timeout |-> 0, i |-> 0, polls |-> 0, sleeps |-> 0,
           status |-> "none", probe |-> "none", okAt |-> 0, ended |-> FALSE]

NewWait(kind, timeout) == [NoWait EXCEPT !.kind = kind, !.timeout = timeout]

\* the waiter has returned: its loop counters are gone, what its last poll
\* saw is kept
Returned(wt) == [wt EXCEPT !.i = 0, !.polls = 0, !.sleeps = 0, !.okAt = 0]

\* what was run in the container of the service in progress; `steps` lists,
\* in order, the commands whose failure propagates, each with its outcome
NoBootstrap == [probes |-> 0, probe1 |-> "none", probe2 |-> "none",
                rewrites |-> 0, mirrors |-> 0, installed |-> 0, steps |-> <<>>]

NoPreflight == [net |-> 0, storage |-> 0]

NoCalls == [bridge |-> 0, create |-> {}, taskWait |-> {}, start |-> {},
            readyWait |-> {}, found |-> {}, destroy |-> {}, exec |-> {}]

\* deployment.py:192-194: the keys _create_container reads with [...]
FlatRequired == {"container_id", "hostname", "ip_address"}

\* deployment.py:214-216: the keys create_params reads with .get(key, default)
FlatDefaulted == {"cpu_cores", "memory_mb", "disk_gb"}

\* deployment.py:159-161: the keys read with [...] under 'container'
NestedRequired == {"id", "hostname", "ip", "resources"}

\* deployment.py:162-164: the keys read with [...] under 'resources'
ResourcesRequired == {"cpu", "memory", "disk"}

\* a container.json document by the keys it holds: at top level, under
\* 'container' and under 'container'/'resources'
NoValues == [cpu |-> 0, memory |-> 0, disk |-> 0, features |-> <<>>,
             mounts |-> <<>>]

RawSpec(t, c, r) == [top |-> t, inner |-> c, res |-> r, val |-> NoValues]

\* the document `raw` with values under its resource keys, the list f under
\* its features key and the list m under its mounts key
Valued(raw, f, m) ==
    [raw EXCEPT !.val = [cpu |-> 2, memory |-> 1024, disk |-> 16,
                         features |-> f, mounts |-> m]]

\* values of a 'features' key
FeatureLists == {<<>>, <<"nesting=1">>, <<"keyctl=1", "nesting=1">>}

\* values of a 'mounts' / 'nfs_mounts' key; 'readonly' is optional in a
\* mount (deployment.py:233)
MountLists ==
    {<<>>,
     <<[source |-> "/mnt/media", target |-> "/media"],
       [source |-> "/mnt/backup", target |-> "/backup", readonly |-> TRUE]>>}

\* the documents json.load may return at deployment.py:151-152: the nested
\* shape, the nested shape without 'resources', the flat shape, a flat
\* document without the resource keys, a document of another kind
RawSpecs ==
    { Valued(RawSpec({"container"},
                     NestedRequired \cup {"features", "nfs_mounts"},
                     ResourcesRequired), f, m) :
        f \in FeatureLists, m \in MountLists }
    \cup
    { Valued(RawSpec(FlatRequired \cup FlatDefaulted \cup {"features", "mounts"},
                     {}, {}), f, m) :
        f \in FeatureLists, m \in MountLists }
    \cup
    { Valued(RawSpec({"container"}, NestedRequired, ResourcesRequired),
             <<>>, <<>>),
      RawSpec({"container"}, NestedRequired \ {"resources"}, {}),
      RawSpec(FlatRequired, {}, {}),
      RawSpec({"name", "image"}, {}, {}) }

\* deployment.py:154-174: flat_config, by its keys; the nested branch raises
\* KeyError for a missing key, the other branch takes the document as it is
NoFlat == [cpu_cores |-> 0, memory_mb |-> 0, disk_gb |-> 0, features |-> <<>>,
           mounts |-> <<>>]

\* deployment.py:168-170: the mounts of a nested document: its 'nfs_mounts',
\* copied when the key is there and its list is not empty
MountsIgnored(raw) == <<>>
MountsOfNested(raw) ==
    IF "nfs_mounts" \in raw.inner THEN raw.val.mounts ELSE <<>>

Normalise(raw) ==
    IF "container" \in raw.top
    THEN IF NestedRequired \subseteq raw.inner /\ ResourcesRequired \subseteq raw.res
         THEN [ok |-> TRUE,
               keys |-> FlatRequired \cup FlatDefaulted \cup {"features"}
                          \cup (IF MountsOfNested(raw) # <<>> THEN {"mounts"}
                                ELSE {}),
               flat |-> [cpu_cores |-> raw.val.cpu,
                         memory_mb |-> raw.val.memory,
                         disk_gb |-> raw.val.disk,
                         features |-> IF "features" \in raw.inner
                                      THEN raw.val.features ELSE <<>>,
                         mounts |-> MountsOfNested(raw)]]
         ELSE [ok |-> FALSE, keys |-> {}, flat |-> NoFlat]
    ELSE [ok |-> TRUE, keys |-> raw.top,
          flat |-> [cpu_cores |-> raw.val.cpu, memory_mb |-> raw.val.memory,
                    disk_gb |-> raw.val.disk, features |-> raw.val.features,
                    mounts |-> raw.val.mounts]]

\* deployment.py:214-216: the fields of create_params filled from a default
DefaultsUsed(keys) == FlatDefaulted \ keys

\* deployment.py:447-462: the features field of the request: 'nesting=1' is
\* always put in, the loop over the declared features appends nothing
SafeFeatures(keys, flat) == <<"nesting=1">>

\* deployment.py:232-234: "source,target" with ",ro=1" for a readonly mount
MountConfig(mount) ==
    [source |-> mount.source, target |-> mount.target,
     ro |-> IF "readonly" \in DOMAIN mount THEN mount.readonly ELSE FALSE]

\* deployment.py:229-235: mp0, mp1, ... of the request, one per mount
MountPointsReversed(keys, flat) ==
    IF "mounts" \in keys /\ flat.mounts # <<>>
    THEN [i \in DOMAIN flat.mounts |->
            MountConfig(flat.mounts[Len(flat.mounts) + 1 - i])]
    ELSE <<>>
MountPoints(keys, flat) ==
    IF "mounts" \in keys /\ flat.mounts # <<>>
    THEN [i \in DOMAIN flat.mounts |-> MountConfig(flat.mounts[i])]
    ELSE <<>>

\* deployment.py:211-235: create_params for the container of `svc`; the
\* fields that are the same for every container are left out
CreateParams(svc, keys, flat) ==
    [vmid |-> svc, hostname |-> svc,
     cores |-> IF "cpu_cores" \in keys THEN flat.cpu_cores ELSE 1,
     memory |-> IF "memory_mb" \in keys THEN flat.memory_mb ELSE 512,
     rootfs |-> IF "disk_gb" \in keys THEN flat.disk_gb ELSE 8,
     features |-> SafeFeatures(keys, flat),
     mp |-> MountPoints(keys, flat)]

NoRequest == [vmid |-> "none", hostname |-> "none", cores |-> 0, memory |-> 0,
              rootfs |-> 0, features |-> <<>>, mp |-> <<>>]

NoCfg == [loaded |-> FALSE, raw |-> RawSpec({}, {}, {}), keys |-> {},
          defaults |-> {}, flat |-> NoFlat, request |-> NoRequest]

\* the ProvisioningState (spec section 3) a position of the run stands for
ProvState(p) ==
    CASE p \in {"svc_begin", "cc_entry", "cc_exists"} -> "Pending"
      [] p \in {"cc_existing"} -> "ContainerExisting"
      [] p \in {"cc_post", "wt_entry", "wt_loop", "wt_sleep", "wt_return"}
            -> "ContainerCreating"
      [] p \in {"cc_return"} -> "ContainerStarting"
      [] p \in {"wr_entry", "wr_loop", "wr_sleep"} -> "WaitingReady"
      [] p \in {"wr_return", "dp_entry", "bs_clean1", "bs_clean2", "bs_probe1",
                "bs_debug1", "bs_debug2", "bs_debug3", "bs_dns1", "bs_dns2",
                "bs_probe2", "bs_mirror1", "bs_mirror2", "bs_install"}
            -> "BootstrappingRuntime"
      [] p \in {"dp_template", "up_mkdir", "up_cat"} -> "UploadingDescriptor"
      [] p \in {"dp_up"} -> "StartingWorkload"
      [] p \in {"svc_done"} -> "Running"
      [] p \in {"svc_failed"} -> "Failed"
      [] OTHER -> "none"

\* the exception type that reaches the except clause of deployment.py:187:
\* open/json.load of lines 151-152 raise OSError or a JSON error, the key
\* reads of lines 159-164 and 192-194 raise KeyError; everything else is a
\* ProxmoxDeploymentError already (raised at 145, 425, 445, or wrapped at
\* 251-252, 277-278, 474-475)
Underlying(at) ==
    CASE at = "load_error" -> "OSError"
      [] at = "shape" -> "KeyError"
      [] OTHER -> "ProxmoxDeploymentError"

\* deployment.py:187-188: `except Exception as e: raise
\* ProxmoxDeploymentError(...)`
Reraise(kind) == kind
WrapError(kind) == "ProxmoxDeploymentError"

\* whatever is raised inside deploy_single_service leaves it through the
\* except clause of lines 187-188
Raise(at) ==
    /\ pc' = "svc_failed"
    /\ error' = [kind |-> WrapError(Underlying(at)), at |-> at,
                 state |-> ProvState(pc), cause |-> "none",
                 raised |-> Underlying(at)]

\* deployment.py:363-371: the exception _execute_in_container raises for a
\* non-zero exit code (line 364, wrapped again at 370-371) and for
\* subprocess.TimeoutExpired (lines 368-369)
ExecErrorKind(o) == "ProxmoxDeploymentError"

\* a command run by _execute_in_container ended as `o`, not "ok"
RaiseExec(at, o) ==
    /\ pc' = "svc_failed"
    /\ error' = [kind |-> WrapError(ExecErrorKind(o)), at |-> at,
                 state |-> ProvState(pc), cause |-> o,
                 raised |-> ExecErrorKind(o)]

\* ---- preflight ---------------------------------------------------------

\* deploy.py:180, deployment.py:29-72: ProxmoxDeployer(config) connects
Connect ==
    /\ pc = "connect"
    /\ \E o \in ApiOutcomes :
         IF o = "ok" THEN pc' = "net" /\ error' = error
         ELSE /\ pc' = "run_failed"
              /\ error' = [kind |-> "ProxmoxDeploymentError", at |-> "connect",
                           state |-> "none", cause |-> "none",
                           raised |-> "ProxmoxDeploymentError"]
    /\ UNCHANGED <<plan, pre, cfg, cur, cluster, calls, attempted, deployed, w, bs>>
    /\ UNCHANGED <<ovars, xvars>>

\* deployment.py:84-89: is there an interface named like the container bridge
BridgeNeverExists(c) == FALSE
BridgeExists(c) == c.bridge

\* deployment.py:74-113: setup_networking; `calls.bridge` counts the bridge
\* creation requests of line 104, `error.cause` tells whether a query of
\* lines 81-82 or the request of line 104 raised
SetupNetworking ==
    /\ pc = "net"
    /\ \E node \in ApiOutcomes, query \in ApiOutcomes, post \in ApiOutcomes :
         IF node = "error" \/ query = "error"
         THEN /\ pc' = "run_failed"
              /\ error' = [kind |-> "ProxmoxDeploymentError", at |-> "network",
                           state |-> "none", cause |-> "query",
                           raised |-> "ProxmoxDeploymentError"]
              /\ UNCHANGED <<cluster, calls>>
         ELSE IF BridgeExists(cluster)
         THEN /\ pc' = "storage"
              /\ UNCHANGED <<cluster, calls, error>>
         ELSE /\ calls' = [calls EXCEPT !.bridge = @ + 1]
              /\ IF post = "ok"
                 THEN /\ pc' = "storage"
                      /\ cluster' = [cluster EXCEPT !.bridge = TRUE]
                      /\ error' = error
                 ELSE /\ pc' = "run_failed"
                      /\ cluster' = cluster
                      /\ error' = [kind |-> "ProxmoxDeploymentError",
                                   at |-> "network", state |-> "none",
                                   cause |-> "post",
                           raised |-> "ProxmoxDeploymentError"]
    /\ pre' = [pre EXCEPT !.net = @ + 1]
    /\ UNCHANGED <<plan, cfg, cur, attempted, deployed, w, bs>>
    /\ UNCHANGED <<ovars, xvars>>

\* deployment.py:129-135: what follows the outcome of showmount: the print
\* of line 130, or a warning (line 132, or line 135 for an exception)
StorageBlocks(o) == IF o = "ok" THEN "storage_ok" ELSE "run_failed"
AfterStorageCheck(o) == IF o = "ok" THEN "storage_ok" ELSE "storage_warn"

\* deployment.py:115-135: setup_storage; showmount exits 0, exits non-zero,
\* runs into its timeout of 10 s, or is not installed
SetupStorage ==
    /\ pc = "storage"
    /\ \E o \in ExecOutcomes \cup {"missing"} : pc' = AfterStorageCheck(o)
    /\ pre' = [pre EXCEPT !.storage = @ + 1]
    /\ UNCHANGED <<plan, cfg, cur, cluster, calls, attempted, deployed, w, bs, error>>
    /\ UNCHANGED <<ovars, xvars>>

\* deploy.py:189-191 / 215-220: setup_storage has returned, the loop over
\* the plan begins
BeginServices ==
    /\ pc \in {"storage_ok", "storage_warn"}
    /\ pc' = "svc_loop"
    /\ UNCHANGED <<plan, pre, cfg, cur, cluster, calls, attempted, deployed, w, bs, error>>
    /\ UNCHANGED <<ovars, xvars>>

\* ---- the loop over the plan, deploy.py:191-194 / 220-223 ---------------

\* next iteration: deploy_single_service(service_name) is called
NextService ==
    /\ pc = "svc_loop"
    /\ cur < Len(plan)
    /\ cur' = cur + 1
    /\ attempted' = Append(attempted, PlanItem(plan, cur + 1))
    /\ pc' = "svc_begin"
    /\ bs' = NoBootstrap
    /\ w' = NoWait
    /\ cfg' = NoCfg
    /\ UNCHANGED <<plan, pre, cluster, calls, deployed, error>>
    /\ UNCHANGED <<ovars, xvars>>

\* deploy.py:225-227: the loop is exhausted, the run completed
RunComplete ==
    /\ pc = "svc_loop"
    /\ cur >= Len(plan)
    /\ pc' = "run_done"
    /\ UNCHANGED <<plan, pre, cfg, cur, cluster, calls, attempted, deployed, w, bs, error>>
    /\ UNCHANGED <<ovars, xvars>>

\* deploy.py:229-231: `except Exception: print; raise`: what the run does
\* once deploy_single_service has raised
ContinueAfterFailure == "svc_loop"
RetryAfterFailure == "svc_begin"
AfterServiceFailure == "run_failed"

\* deploy.py:229-231: the services torn down when the run fails: none
RollbackOnFailure(done) == {}

ServiceFailed ==
    /\ pc = "svc_failed"
    /\ pc' = AfterServiceFailure
    /\ calls' = [calls EXCEPT !.destroy = @ \cup RollbackOnFailure(deployed)]
    /\ UNCHANGED <<plan, pre, cfg, cur, cluster, attempted, deployed, w, bs, error>>
    /\ UNCHANGED <<ovars, xvars>>

\* deploy.py:191-194 / 220-223: after a service the loop goes to its next
\* iteration; the preflight calls are outside the loop
PreflightAgain == "net"
LoopAgain == "svc_loop"

\* deployment.py:185 and deploy.py:194/223: the service is deployed
ServiceDone ==
    /\ pc = "svc_done"
    /\ deployed' = Append(deployed, Cur)
    /\ pc' = LoopAgain
    /\ UNCHANGED <<plan, pre, cfg, cur, cluster, calls, attempted, w, bs, error>>
    /\ UNCHANGED <<ovars, xvars>>

\* ---- deploy_single_service, deployment.py:137-188 ----------------------

\* lines 143-177: get_service_info, the service files, container.json and
\* its normalisation to the flat shape
LoadService ==
    /\ pc = "svc_begin"
    /\ \E o \in {"ok", "not_found", "load_error"}, raw \in RawSpecs :
         IF o = "ok"
         THEN /\ cfg' = [loaded |-> TRUE, raw |-> raw,
                         keys |-> Normalise(raw).keys, defaults |-> {},
                         flat |-> Normalise(raw).flat, request |-> NoRequest]
              /\ IF Normalise(raw).ok THEN pc' = "cc_entry" /\ error' = error
                 ELSE Raise("shape")
         ELSE Raise(o) /\ cfg' = cfg
    /\ UNCHANGED <<plan, pre, cur, cluster, calls, attempted, deployed, w, bs>>
    /\ UNCHANGED <<ovars, xvars>>

\* ---- _create_container, deployment.py:190-252 --------------------------

\* line 177: _create_container is handed flat_config, not the document;
\* lines 192-194: the three keys read with [...], KeyError when one is
\* missing; line 200: node_name = self._get_node_name()
CreateEntry ==
    /\ pc = "cc_entry"
    /\ \E o \in ApiOutcomes :
         IF ~(FlatRequired \subseteq cfg.keys) THEN Raise("shape") /\ cfg' = cfg
         ELSE /\ cfg' = cfg
              /\ IF o = "ok" THEN pc' = "cc_exists" /\ error' = error
                 ELSE Raise("node_name")
    /\ UNCHANGED <<plan, pre, cur, cluster, calls, attempted, deployed, w, bs>>
    /\ UNCHANGED <<ovars, xvars>>

\* lines 203-208: where the existence query leads: found -> line 205-206,
\* anything raised -> `pass`, on to the creation
ExistingFallsThrough(found) == "cc_post"
AfterExistenceQuery(found) == IF found THEN "cc_existing" ELSE "cc_post"

\* line 204: the config query returns only for an existing container; it
\* raises for an absent one, and it may raise for any other reason
CheckExists ==
    /\ pc = "cc_exists"
    /\ \E o \in ApiOutcomes :
         LET found == o = "ok" /\ Cur \in cluster.containers
         IN  /\ pc' = AfterExistenceQuery(found)
             /\ calls' = IF found THEN [calls EXCEPT !.found = @ \cup {Cur}]
                         ELSE calls
    /\ UNCHANGED <<plan, pre, cfg, cur, cluster, attempted, deployed, w, bs, error>>
    /\ UNCHANGED <<ovars, xvars>>

\* lines 205-206: "already exists, skipping creation"; return container_id;
\* the locals of _create_container are gone
ReturnExisting ==
    /\ pc = "cc_existing"
    /\ pc' = "wr_entry"
    /\ cfg' = NoCfg
    /\ UNCHANGED <<plan, pre, cur, cluster, calls, attempted, deployed, w, bs, error>>
    /\ UNCHANGED <<ovars, xvars>>

\* lines 210-238: build create_params and submit the creation request
SubmitCreate ==
    /\ pc = "cc_post"
    /\ \E o \in ApiOutcomes :
         IF o = "ok"
         THEN /\ pc' = "wt_entry"
              /\ calls' = [calls EXCEPT !.create = @ \cup {Cur}]
              /\ error' = error
         ELSE /\ Raise("create")
              /\ calls' = [calls EXCEPT !.create = @ \cup {Cur}]
    /\ cfg' = [cfg EXCEPT !.defaults = DefaultsUsed(cfg.keys),
                          !.request = CreateParams(Cur, cfg.keys, cfg.flat)]
    /\ UNCHANGED <<plan, pre, cur, cluster, attempted, deployed, w, bs>>
    /\ UNCHANGED <<ovars, xvars>>

\* ---- _wait_for_task, deployment.py:427-445 -----------------------------

\* line 241, 429: called with the default timeout; node name looked up;
\* create_params and the values of container_config are not read again
WaitTaskEntry ==
    /\ pc = "wt_entry"
    /\ calls' = [calls EXCEPT !.taskWait = @ \cup {Cur}]
    /\ \E o \in ApiOutcomes :
         IF o = "ok"
         THEN /\ pc' = "wt_loop"
              /\ w' = NewWait("task", TaskTimeoutDefault)
              /\ error' = error
         ELSE Raise("node_name") /\ w' = w
    /\ cfg' = NoCfg
    /\ UNCHANGED <<plan, pre, cur, cluster, attempted, deployed, bs>>
    /\ UNCHANGED <<ovars, xvars>>

\* lines 431, 397: `for i in range(timeout)`: the number of iterations
RangeLenPlusOne(timeout) == timeout + 1
RangeLen(timeout) == timeout

\* lines 434-436: the poll on which the waiter returns
TaskStopped(status) == status \in {"stopped_ok", "stopped_fail"}
TaskDone(status) == status = "stopped_ok"

\* lines 437-443: after a poll that did not return (task still running,
\* stopped with a non-OK exit, or the query raised).  The raise of line 438
\* sits inside the try of line 432: `except Exception` (442-443) catches
\* it, sleeps, and the loop goes on.
ProceedOnFailure(status) ==
    IF status = "stopped_fail" THEN "wt_return" ELSE "wt_sleep"
AfterTaskPoll(status) == "wt_sleep"

\* line 433: what a poll of the task may see: a task that has stopped with a
\* non-OK exit status stays so, the query itself may still raise
TaskStatusesNow(wt) ==
    IF wt.ended THEN {"stopped_fail", "error"} ELSE TaskStatuses

\* lines 241-247: once the creation task is done _create_container goes on
\* to start the container
StartSkipped == "cc_return"
AfterCreateTask == "wt_return"

WaitTaskPoll ==
    /\ pc = "wt_loop"
    /\ w.i < RangeLen(w.timeout)
    /\ \E st \in TaskStatusesNow(w) :
         /\ w' = [w EXCEPT !.polls = @ + 1, !.status = st,
                           !.ended = @ \/ st = "stopped_fail",
                           !.okAt = IF TaskDone(st) THEN w.polls + 1 ELSE @]
         /\ IF TaskDone(st)
            THEN /\ pc' = AfterCreateTask
                 /\ cluster' = [cluster EXCEPT !.containers = @ \cup {Cur}]
            ELSE /\ pc' = AfterTaskPoll(st)
                 /\ cluster' = cluster
    /\ UNCHANGED <<plan, pre, cfg, cur, calls, attempted, deployed, bs, error>>
    /\ UNCHANGED <<ovars, xvars>>

\* lines 440, 443: time.sleep(1), next iteration
WaitTaskSleep ==
    /\ pc = "wt_sleep"
    /\ w' = [w EXCEPT !.sleeps = @ + 1, !.i = @ + 1]
    /\ pc' = "wt_loop"
    /\ UNCHANGED <<plan, pre, cfg, cur, cluster, calls, attempted, deployed, bs, error>>
    /\ UNCHANGED <<ovars, xvars>>

\* line 445: the loop is exhausted
WaitTaskTimeout ==
    /\ pc = "wt_loop"
    /\ w.i >= RangeLen(w.timeout)
    /\ Raise("task_timeout")
    /\ UNCHANGED <<plan, pre, cfg, cur, cluster, calls, attempted, deployed, w, bs>>
    /\ UNCHANGED <<ovars, xvars>>

\* lines 243-249: the container is created: start it, return its id
StartContainer ==
    /\ pc = "wt_return"
    /\ \E o \in ApiOutcomes :
         IF o = "ok"
         THEN /\ pc' = "cc_return"
              /\ calls' = [calls EXCEPT !.start = @ \cup {Cur}]
              /\ error' = error
         ELSE /\ Raise("start")
              /\ calls' = [calls EXCEPT !.start = @ \cup {Cur}]
    /\ w' = Returned(w)
    /\ UNCHANGED <<plan, pre, cfg, cur, cluster, attempted, deployed, bs>>
    /\ UNCHANGED <<ovars, xvars>>

\* line 249: return container_id; the locals of _create_container are gone
ReturnCreated ==
    /\ pc = "cc_return"
    /\ pc' = "wr_entry"
    /\ cfg' = NoCfg
    /\ UNCHANGED <<plan, pre, cur, cluster, calls, attempted, deployed, w, bs, error>>
    /\ UNCHANGED <<ovars, xvars>>

\* ---- _wait_for_container_ready, deployment.py:391-425 ------------------

\* lines 180, 395: called with the default timeout; node name looked up
WaitReadyEntry ==
    /\ pc = "wr_entry"
    /\ calls' = [calls EXCEPT !.readyWait = @ \cup {Cur}]
    /\ \E o \in ApiOutcomes :
         IF o = "ok"
         THEN /\ pc' = "wr_loop"
              /\ w' = NewWait("ready", ReadyTimeoutDefault)
              /\ error' = error
         ELSE Raise("node_name") /\ w' = w
    /\ UNCHANGED <<plan, pre, cfg, cur, cluster, attempted, deployed, bs>>
    /\ UNCHANGED <<ovars, xvars>>

\* lines 406-412: the poll on which the waiter returns: status 'running'
\* and the command `echo 'ready'` succeeded in the container
RunningIsReady(status, probe) == status = "running"
IsReady(status, probe) == status = "running" /\ probe = "ok"

\* lines 398-423: one poll; the probe runs only in a running container
WaitReadyPoll ==
    /\ pc = "wr_loop"
    /\ w.i < RangeLen(w.timeout)
    /\ \E st \in ContainerStatuses, ex \in ExecOutcomes :
         LET probe == IF st # "running" THEN "none"
                      ELSE IF ex = "ok" THEN "ok" ELSE "fail"
         IN  /\ w' = [w EXCEPT !.polls = @ + 1, !.status = st, !.probe = probe,
                               !.okAt = IF IsReady(st, probe)
                                        THEN w.polls + 1 ELSE @]
             /\ pc' = IF IsReady(st, probe) THEN "wr_return" ELSE "wr_sleep"
             /\ calls' = IF st = "running"
                         THEN [calls EXCEPT !.exec = @ \cup {Cur}]
                         ELSE calls
    /\ UNCHANGED <<plan, pre, cfg, cur, cluster, attempted, deployed, bs, error>>
    /\ UNCHANGED <<ovars, xvars>>

\* lines 418, 423: time.sleep(1), next iteration
WaitReadySleep ==
    /\ pc = "wr_sleep"
    /\ w' = [w EXCEPT !.sleeps = @ + 1, !.i = @ + 1]
    /\ pc' = "wr_loop"
    /\ UNCHANGED <<plan, pre, cfg, cur, cluster, calls, attempted, deployed, bs, error>>
    /\ UNCHANGED <<ovars, xvars>>

\* line 425: the loop is exhausted
WaitReadyTimeout ==
    /\ pc = "wr_loop"
    /\ w.i >= RangeLen(w.timeout)
    /\ Raise("ready_timeout")
    /\ UNCHANGED <<plan, pre, cfg, cur, cluster, calls, attempted, deployed, w, bs>>
    /\ UNCHANGED <<ovars, xvars>>

\* ---- _deploy_service_in_container, deployment.py:254-278 --------------

\* line 260: node_name = self._get_node_name()
DeployEntry ==
    /\ pc = "wr_return"
    /\ \E o \in ApiOutcomes :
         IF o = "ok" THEN pc' = "bs_clean1" /\ error' = error
         ELSE Raise("node_name")
    /\ w' = Returned(w)
    /\ UNCHANGED <<plan, pre, cfg, cur, cluster, calls, attempted, deployed, bs>>
    /\ UNCHANGED <<ovars, xvars>>

\* ---- _install_docker_in_container, deployment.py:280-346 ---------------

\* a command whose failure is swallowed (`except: pass`): `ok` and `ko` are
\* the positions after success and after failure
Tolerated(at, ok, ko) ==
    /\ pc = at
    /\ \E o \in ExecOutcomes : pc' = IF o = "ok" THEN ok ELSE ko
    /\ UNCHANGED <<plan, pre, cfg, cur, cluster, calls, attempted, deployed, w, error>>
    /\ UNCHANGED <<ovars, xvars>>

\* a command whose failure propagates (deployment.py:363-371); `b` is the
\* bootstrap record once the command is issued
HardTolerant(at, ok, what, b) ==
    /\ pc = at
    /\ \E o \in ExecOutcomes :
         /\ bs' = [b EXCEPT !.steps = Append(@, [step |-> at, n |-> b.installed,
                                                 ok |-> o = "ok"])]
         /\ pc' = ok
         /\ error' = error
    /\ UNCHANGED <<plan, pre, cfg, cur, cluster, calls, attempted, deployed, w>>
    /\ UNCHANGED <<ovars, xvars>>
Hard(at, ok, what, b) ==
    /\ pc = at
    /\ \E o \in ExecOutcomes :
         /\ bs' = [b EXCEPT !.steps = Append(@, [step |-> at, n |-> b.installed,
                                                 ok |-> o = "ok"])]
         /\ IF o = "ok" THEN pc' = ok /\ error' = error
            ELSE RaiseExec(what, o)
    /\ UNCHANGED <<plan, pre, cfg, cur, cluster, calls, attempted, deployed, w>>
    /\ UNCHANGED <<ovars, xvars>>

\* line 287, in the try of lines 285-290: pkill -f apt-get || true
CleanProcesses ==
    /\ bs' = bs
    /\ Tolerated("bs_clean1", "bs_clean2", "bs_probe1")

\* line 288, in the same try: rm -f of the apt and dpkg locks
CleanLocks ==
    /\ bs' = bs
    /\ Tolerated("bs_clean2", "bs_probe1", "bs_probe1")

\* lines 295-300: connectivity confirmed: on to the installation; the
\* except branch starts the diagnosis
AlwaysRemediate(reachable) == "bs_debug1"
AfterFirstProbe(reachable) == IF reachable THEN "bs_install" ELSE "bs_debug1"

\* lines 293-298: the first connectivity probe, `ping -c 1 8.8.8.8`
ProbeFirst ==
    /\ pc = "bs_probe1"
    /\ \E o \in ExecOutcomes :
         /\ bs' = [bs EXCEPT !.probes = @ + 1,
                             !.probe1 = IF o = "ok" THEN "ok" ELSE "fail"]
         /\ pc' = AfterFirstProbe(o = "ok")
    /\ UNCHANGED <<plan, pre, cfg, cur, cluster, calls, attempted, deployed, w, error>>
    /\ UNCHANGED <<ovars, xvars>>

\* lines 301-309: three diagnostic commands in one try; a failure skips
\* the rest.  Line 302: ip addr show
DebugAddr ==
    /\ bs' = bs
    /\ Tolerated("bs_debug1", "bs_debug2", "bs_dns1")

\* line 304: ip route show
DebugRoute ==
    /\ bs' = bs
    /\ Tolerated("bs_debug2", "bs_debug3", "bs_dns1")

\* line 306: cat /etc/resolv.conf
DebugResolv ==
    /\ bs' = bs
    /\ Tolerated("bs_debug3", "bs_dns1", "bs_dns1")

\* line 313: echo 'nameserver 8.8.8.8' > /etc/resolv.conf
RewriteDns ==
    Hard("bs_dns1", "bs_dns2", "dns_rewrite", [bs EXCEPT !.rewrites = @ + 1])

\* lines 316-318: where the flow goes once resolv.conf is rewritten
AfterDnsRewrite == "bs_probe2"

\* line 314: echo 'nameserver 8.8.4.4' >> /etc/resolv.conf
AppendDns ==
    Hard("bs_dns2", AfterDnsRewrite, "dns_rewrite", bs)

\* lines 320-324: where the flow goes when the re-probe fails too
ProbeAgain == "bs_probe2"
AfterSecondProbeFail == "bs_mirror1"

\* lines 317-321: the re-probe
ProbeSecond ==
    /\ pc = "bs_probe2"
    /\ \E o \in ExecOutcomes :
         /\ bs' = [bs EXCEPT !.probes = @ + 1,
                             !.probe2 = IF o = "ok" THEN "ok" ELSE "fail"]
         /\ pc' = IF o = "ok" THEN "bs_install" ELSE AfterSecondProbeFail
    /\ UNCHANGED <<plan, pre, cfg, cur, cluster, calls, attempted, deployed, w, error>>
    /\ UNCHANGED <<ovars, xvars>>

\* line 323: sed archive.ubuntu.com -> mirror in sources.list
SwitchMirrorArchive ==
    Hard("bs_mirror1", "bs_mirror2", "mirror_switch", [bs EXCEPT !.mirrors = @ + 1])

\* line 324: sed security.ubuntu.com -> mirror in sources.list
SwitchMirrorSecurity ==
    Hard("bs_mirror2", "bs_install", "mirror_switch", bs)

\* lines 340-344: the next command of `commands`; in `steps` its `n` is its
\* index in the list
InstallCommand ==
    /\ bs.installed < NumInstallCommands
    /\ Hard("bs_install", "bs_install", "install",
            [bs EXCEPT !.installed = @ + 1])

\* lines 266-270: the rendered template is uploaded next
UploadSkipped == "dp_up"
AfterTemplate == "up_mkdir"

\* line 346 and 266: Docker installed; render the compose template
RenderTemplate ==
    /\ pc = "bs_install"
    /\ bs.installed = NumInstallCommands
    /\ \E o \in {"ok", "error"} :
         IF o = "ok" THEN pc' = AfterTemplate /\ error' = error
         ELSE Raise("template")
    /\ UNCHANGED <<plan, pre, cfg, cur, cluster, calls, attempted, deployed, w, bs>>
    /\ UNCHANGED <<ovars, xvars>>

\* ---- _upload_file_to_container, deployment.py:373-389 ------------------

\* line 378: mkdir -p <dir>
UploadMkdir ==
    Hard("up_mkdir", "up_cat", "upload", bs)

\* lines 381-386: cat > <path> << 'EOF_HOMELAB_DEPLOY'
UploadWrite ==
    Hard("up_cat", "dp_up", "upload", bs)

\* line 273: cd /opt/<service> && docker-compose up -d
StartWorkload ==
    Hard("dp_up", "svc_done", "compose_up", bs)

(***************************************************************************)
(* _upload_file_to_container, deployment.py:373-389, on any content        *)
(***************************************************************************)

\* the characters of a content: a letter, a shell metacharacter, the newline,
\* and the 18 characters EOF_HOMELAB_DEPLOY taken as one
Characters == {"a", "$", "\n", "EOF_HOMELAB_DEPLOY"}

\* line 381: heredoc_delimiter
HeredocDelimiter == <<"EOF_HOMELAB_DEPLOY">>

\* line 382: the first line of the command
HeredocHeader == <<"cat > path << 'EOF_HOMELAB_DEPLOY'">>

\* lines 382-384: the f-string: header, newline, content, newline, delimiter
HeredocCommand(content) ==
    HeredocHeader \o <<"\n">> \o content \o <<"\n">> \o HeredocDelimiter

\* the lines of a text, as bash reads them: the text split at its newlines
RECURSIVE SplitLines(_)
SplitLines(text) ==
    IF \A i \in DOMAIN text : text[i] # "\n" THEN <<text>>
    ELSE LET i == CHOOSE k \in DOMAIN text :
                     /\ text[k] = "\n"
                     /\ \A j \in 1..(k - 1) : text[j] # "\n"
         IN  <<SubSeq(text, 1, i - 1)>> \o SplitLines(SubSeq(text, i + 1, Len(text)))

\* the index of the first line after the header that is the delimiter: the
\* end of the here-document (bash, quoted delimiter: the lines are taken as
\* they are, up to the first line equal to the delimiter)
HeredocEnd(lines) ==
    CHOOSE k \in 2..Len(lines) :
        /\ lines[k] = HeredocDelimiter
        /\ \A j \in 2..(k - 1) : lines[j] # HeredocDelimiter

\* what cat receives and writes: every line of the here-document, each with
\* its newline
RECURSIVE JoinLines(_)
JoinLines(lines) ==
    IF lines = <<>> THEN <<>>
    ELSE Head(lines) \o <<"\n">> \o JoinLines(Tail(lines))

HeredocBody(command) ==
    LET lines == SplitLines(command)
    IN  JoinLines(SubSeq(lines, 2, HeredocEnd(lines) - 1))

\* the lines of the command after the end of the here-document: bash runs
\* them as commands, the last of them is the delimiter of line 384
AfterHeredoc(command) ==
    LET lines == SplitLines(command)
    IN  SubSeq(lines, HeredocEnd(lines) + 1, Len(lines))

NoUpload == [pc |-> "idle", content |-> <<>>, command |-> <<>>,
             written |-> FALSE, file |-> <<>>]

\* line 378: mkdir -p <dir>; lines 388-389 wrap what _execute_in_container
\* raises
UploadFileMkdir ==
    /\ up.pc = "mkdir"
    /\ \E o \in ExecOutcomes :
         up' = [up EXCEPT !.pc = IF o = "ok" THEN "build" ELSE "raised"]
    /\ UNCHANGED <<ovars, dvars, cmd>>

\* lines 381-384: the command
UploadFileCommand ==
    /\ up.pc = "build"
    /\ up' = [up EXCEPT !.pc = "exec", !.command = HeredocCommand(up.content)]
    /\ UNCHANGED <<ovars, dvars, cmd>>

\* line 386 and lines 348-371: bash -c runs the command; cat writes the
\* here-document to the file; lines left after it are run as commands and
\* the last one, the delimiter, is no command: the exit code is not 0
UploadFileExecute ==
    /\ up.pc = "exec"
    /\ \E o \in ExecOutcomes :
         IF o = "timeout"
         THEN up' = [up EXCEPT !.pc = "raised"]
         ELSE up' = [up EXCEPT
                       !.written = TRUE,
                       !.file = HeredocBody(up.command),
                       !.pc = IF o = "ok" /\ AfterHeredoc(up.command) = <<>>
                              THEN "done" ELSE "raised"]
    /\ UNCHANGED <<ovars, dvars, cmd>>

(***************************************************************************)
(* The deploy command, deploy.py:100-171                                   *)
(***************************************************************************)

\* the service directories discover_all_services may find, sorted
Catalog == <<"homepage", "pihole">>

\* a name with no service directory
Unknown == "ghost"

\* the services on disk: the valid service directories, the names each
\* service.json requires, the services with auto_deploy: true
Worlds ==
    { [known |-> k, requires |-> r, auto |-> a] :
        k \in SUBSET Range(Catalog),
        r \in {[n \in Range(Catalog) |-> IF n = "homepage" THEN d ELSE {}] :
                 d \in {{}, {"pihole"}, {Unknown}}},
        a \in SUBSET Range(Catalog) }

\* values of the --services option after line 126; <<>> when it is not given
Requests == {<<>>, <<"pihole">>, <<"homepage">>, <<"homepage", "pihole">>,
             <<Unknown>>}

\* service_discovery.py:140-160
validate_service_dependencies(world, name) ==
    /\ name \in world.known
    /\ world.requires[name] \subseteq world.known

\* service_discovery.py:239-255
validate_services(world, list) ==
    /\ Range(list) \subseteq world.known
    /\ \A i \in DOMAIN list : validate_service_dependencies(world, list[i])

\* service_discovery.py:119-127
get_auto_deploy_services(world) ==
    SelectSeq(Catalog, LAMBDA n : n \in world.known /\ n \in world.auto)

\* deploy.py:169: `except Exception` catches what the try block raises;
\* typer.Exit and typer.Abort are click's Exit and Abort, both RuntimeError
CaughtByExcept(exc) == exc \in {"Exit", "Abort", "Exception"}

NoCommand == [pc |-> "idle", services |-> <<>>, dry_run |-> FALSE,
              world |-> [known |-> {}, requires |-> [n \in Range(Catalog) |-> {}],
                         auto |-> {}],
              list |-> <<>>, validated |-> FALSE, resolved |-> <<>>,
              raised |-> "none", status |-> 0, outcome |-> "none",
              exited |-> FALSE, code |-> 0,
              checked |-> FALSE, answer |-> "none", orchestrated |-> FALSE]

\* `raise exc` inside the try block of lines 110-167
RaiseInTry(exc, status, outcome) ==
    [cmd EXCEPT !.pc = "except", !.raised = exc, !.status = status,
                !.outcome = outcome]

\* lines 111-118: load_config, ComprehensiveValidator.validate_all
ValidateConfig ==
    /\ cmd.pc = "start"
    /\ \E o \in {"ok", "invalid", "load_error"} :
         cmd' = CASE o = "ok" -> [cmd EXCEPT !.pc = "select", !.checked = TRUE]
                  [] o = "invalid" -> RaiseInTry("Exit", 1, "validation_error")
                  [] OTHER -> RaiseInTry("Exception", 1, "validation_error")
    /\ UNCHANGED <<ovars, dvars, up>>

\* lines 124-130: `if services:` validate_services(service_list)
ValidateRequested ==
    /\ cmd.pc = "select"
    /\ cmd.services # <<>>
    /\ cmd' = IF validate_services(cmd.world, cmd.services)
              THEN [cmd EXCEPT !.pc = "order", !.list = cmd.services,
                               !.validated = TRUE]
              ELSE RaiseInTry("Exit", 1, "validation_error")
    /\ UNCHANGED <<ovars, dvars, up>>

\* lines 138-145: `else:` get_auto_deploy_services(), Exit(0) when empty
SelectAutoDeploy ==
    /\ cmd.pc = "select"
    /\ cmd.services = <<>>
    /\ cmd' = IF get_auto_deploy_services(cmd.world) = <<>>
              THEN RaiseInTry("Exit", 0, "nothing_to_deploy")
              ELSE [cmd EXCEPT !.pc = "order",
                               !.list = get_auto_deploy_services(cmd.world)]
    /\ UNCHANGED <<ovars, dvars, up>>

\* lines 133, 147: get_deployment_order(list); the call is recorded with
\* whether validate_services has accepted the list
ResolveOrder ==
    /\ cmd.pc = "order"
    /\ cmd' = [cmd EXCEPT !.pc = "summary",
                          !.resolved = Append(@, [on |-> cmd.list,
                                                  validated |-> cmd.validated])]
    /\ UNCHANGED <<ovars, dvars, up>>

\* line 154: `if dry_run:`, the branch that returns at line 159
DryRunIgnored(dry_run) == FALSE
DryRunReturns(dry_run) == dry_run

\* lines 151-159: the summary; `if dry_run: ... return`
Summary ==
    /\ cmd.pc = "summary"
    /\ cmd' = IF DryRunReturns(cmd.dry_run)
              THEN [cmd EXCEPT !.pc = "exit", !.exited = TRUE, !.code = 0,
                               !.outcome = "dry_run"]
              ELSE [cmd EXCEPT !.pc = "confirm"]
    /\ UNCHANGED <<ovars, dvars, up>>

\* lines 162-164: typer.confirm: yes, no (raise typer.Exit(0)), or the
\* prompt is interrupted (typer.Abort)
Confirm ==
    /\ cmd.pc = "confirm"
    /\ \E answer \in {"yes", "no", "interrupt"} :
         cmd' = CASE answer = "yes" -> [cmd EXCEPT !.pc = "impl", !.answer = answer]
                  [] answer = "no" ->
                       [RaiseInTry("Exit", 0, "cancelled") EXCEPT !.answer = answer]
                  [] OTHER ->
                       [RaiseInTry("Abort", 1, "interrupted") EXCEPT !.answer = answer]
    /\ UNCHANGED <<ovars, dvars, up>>

\* line 167: deploy_services_impl is called: it creates the ProxmoxDeployer
\* (line 180), runs the preflight and the services, and returns, or
\* re-raises what stopped it (lines 229-231)
Deploy ==
    /\ cmd.pc = "impl"
    /\ \E o \in {"ok", "error"} :
         cmd' = IF o = "ok"
                THEN [cmd EXCEPT !.pc = "exit", !.exited = TRUE, !.code = 0,
                                 !.outcome = "success", !.orchestrated = TRUE]
                ELSE [RaiseInTry("Exception", 1, "deployment_error")
                         EXCEPT !.orchestrated = TRUE]
    /\ UNCHANGED <<ovars, dvars, up>>

\* lines 169-171: `except Exception as e: ... raise typer.Exit(1)`; what is
\* not caught leaves the command with its own status
ExceptClause ==
    /\ cmd.pc = "except"
    /\ cmd' = [cmd EXCEPT !.pc = "exit", !.exited = TRUE,
                          !.code = IF CaughtByExcept(cmd.raised) THEN 1
                                   ELSE cmd.status]
    /\ UNCHANGED <<ovars, dvars, up>>

IdleOrder ==
    /\ services = <<>>
    /\ info = [n \in Names |-> NoInfo]
    /\ service_deps = <<>>
    /\ ordered = <<>>
    /\ visited = {}
    /\ visiting = {}
    /\ stack = <<>>
    /\ top = 1
    /\ warned = {}
    /\ rpc = "idle"

IdleDeploy ==
    /\ plan = <<>>
    /\ cur = 0
    /\ pc = "idle"
    /\ cluster = [containers |-> {}, bridge |-> FALSE]
    /\ calls = NoCalls
    /\ attempted = <<>>
    /\ deployed = <<>>
    /\ w = NoWait
    /\ bs = NoBootstrap
    /\ error = NoError
    /\ cfg = NoCfg
    /\ pre = NoPreflight

IdleUpload == up = NoUpload

IdleCommand == cmd = NoCommand

InitDeploy ==
    /\ IdleOrder
    /\ plan \in {SubSeq(Fleet, 1, k) : k \in 0..MaxPlan}
    /\ cur = 0
    /\ pc = "connect"
    /\ cluster \in [containers : SUBSET Range(plan), bridge : BOOLEAN]
    /\ calls = NoCalls
    /\ attempted = <<>>
    /\ deployed = <<>>
    /\ w = NoWait
    /\ bs = NoBootstrap
    /\ error = NoError
    /\ cfg = NoCfg
    /\ pre = NoPreflight
    /\ up = NoUpload
    /\ cmd = NoCommand

Preflight == Connect \/ SetupNetworking \/ SetupStorage \/ BeginServices

RunLoop == NextService \/ RunComplete \/ ServiceFailed \/ ServiceDone

CreateContainer ==
    \/ CreateEntry
    \/ CheckExists
    \/ ReturnExisting
    \/ SubmitCreate
    \/ StartContainer
    \/ ReturnCreated

WaitTask == WaitTaskEntry \/ WaitTaskPoll \/ WaitTaskSleep \/ WaitTaskTimeout

WaitReady == WaitReadyEntry \/ WaitReadyPoll \/ WaitReadySleep \/ WaitReadyTimeout

InstallDocker ==
    \/ CleanProcesses
    \/ CleanLocks
    \/ ProbeFirst
    \/ DebugAddr
    \/ DebugRoute
    \/ DebugResolv
    \/ RewriteDns
    \/ AppendDns
    \/ ProbeSecond
    \/ SwitchMirrorArchive
    \/ SwitchMirrorSecurity
    \/ InstallCommand

DeployInContainer ==
    \/ DeployEntry
    \/ InstallDocker
    \/ RenderTemplate
    \/ UploadMkdir
    \/ UploadWrite
    \/ StartWorkload

NextDeploy ==
    \/ Preflight
    \/ RunLoop
    \/ LoadService
    \/ CreateContainer
    \/ WaitTask
    \/ WaitReady
    \/ DeployInContainer

SpecDeploy == InitDeploy /\ [][NextDeploy]_vars

\* a waiter called on its own, with any timeout, for one container
InitWait ==
    /\ IdleOrder
    /\ plan = SubSeq(Fleet, 1, 1)
    /\ cur = 1
    /\ \E k \in {"task", "ready"}, t \in 0..MaxTimeout :
         /\ w = NewWait(k, t)
         /\ pc = IF k = "task" THEN "wt_loop" ELSE "wr_loop"
         /\ cluster = [containers |-> IF k = "task" THEN {} ELSE {Cur},
                       bridge |-> TRUE]
    /\ calls = NoCalls
    /\ attempted = plan
    /\ deployed = <<>>
    /\ bs = NoBootstrap
    /\ error = NoError
    /\ cfg = NoCfg
    /\ pre = NoPreflight
    /\ up = NoUpload
    /\ cmd = NoCommand

NextWait ==
    \/ WaitTaskPoll
    \/ WaitTaskSleep
    \/ WaitTaskTimeout
    \/ WaitReadyPoll
    \/ WaitReadySleep
    \/ WaitReadyTimeout

SpecWait == InitWait /\ [][NextWait]_vars

\* _upload_file_to_container called on its own, with any content
InitUpload ==
    /\ IdleOrder
    /\ IdleDeploy
    /\ IdleCommand
    /\ \E c \in SeqUpTo(Characters, MaxContent) :
         up = [NoUpload EXCEPT !.pc = "mkdir", !.content = c]

NextUpload ==
    \/ UploadFileMkdir
    \/ UploadFileCommand
    \/ UploadFileExecute

SpecUpload == InitUpload /\ [][NextUpload]_vars

\* the deploy command, with any options, over any services on disk
InitCommand ==
    /\ IdleOrder
    /\ IdleDeploy
    /\ IdleUpload
    /\ \E r \in Requests, d \in BOOLEAN, wd \in Worlds :
         /\ wd.auto \subseteq wd.known
         /\ cmd = [NoCommand EXCEPT !.pc = "start", !.services = r,
                                    !.dry_run = d, !.world = wd]

NextCommand ==
    \/ ValidateConfig
    \/ ValidateRequested
    \/ SelectAutoDeploy
    \/ ResolveOrder
    \/ Summary
    \/ Confirm
    \/ Deploy
    \/ ExceptClause

SpecCommand == InitCommand /\ [][NextCommand]_vars

(***************************************************************************)
(* Specification of the resolver                                           *)
(***************************************************************************)
InitOrder ==
    /\ services \in SeqUpTo(Names, MaxReq)
    /\ info \in [Names -> Infos]
    \* get_service_info is only ever called on requested names (line 167):
    \* the descriptors of the other services are never read
    /\ \A n \in Names \ Range(services) : info[n] = NoInfo
    /\ service_deps = <<>>
    /\ ordered = <<>>
    /\ visited = {}
    /\ visiting = {}
    /\ stack = <<>>
    /\ top = 1
    /\ warned = {}
    /\ rpc = "start"
    /\ IdleDeploy
    /\ IdleUpload
    /\ IdleCommand

NextOrder ==
    \/ BuildGraph
    \/ CallVisit
    \/ VisitCycle
    \/ VisitDone
    \/ VisitEnter
    \/ VisitDep
    \/ VisitExit
    \/ ReturnOrdered

SpecOrder == InitOrder /\ [][NextOrder]_vars

\* the resolver is sequential code: every enabled step is eventually taken
SpecOrderFair == SpecOrder /\ WF_vars(NextOrder)

(***************************************************************************)
(* The resolver and the run together, deploy.py:132-167                    *)
(***************************************************************************)

\* deploy.py:133, 147, 167: what deploy_services_impl is handed: the list
\* get_deployment_order returned
RequestedAsGiven(requested, order) == requested
DeployServices(requested, order) == order

\* deploy.py:133/147 and 167: deploy_services = get_deployment_order(...),
\* then deploy_services_impl(deploy_services, ...)
HandOverPlan ==
    /\ rpc = "done"
    /\ pc = "idle"
    /\ plan' = DeployServices(services, ordered)
    /\ pc' = "connect"
    /\ UNCHANGED <<pre, cfg, cur, cluster, calls, attempted, deployed, w, bs, error>>
    /\ UNCHANGED <<ovars, xvars>>

\* deployment.py:137-188 as one step: deploy_single_service returns, or it
\* raises ProxmoxDeploymentError
DeploySingleService ==
    /\ pc = "svc_begin"
    /\ \E o \in ApiOutcomes :
         IF o = "ok" THEN pc' = "svc_done" /\ error' = error
         ELSE Raise("service")
    /\ UNCHANGED <<plan, pre, cfg, cur, cluster, calls, attempted, deployed, w, bs>>
    /\ UNCHANGED <<ovars, xvars>>

NextEndToEnd ==
    \/ NextOrder
    \/ HandOverPlan
    \/ Preflight
    \/ RunLoop
    \/ DeploySingleService

\* a requested list that names each service once; what the resolver does
\* with a repeated name is a matter of the resolver alone
InitEndToEnd ==
    /\ InitOrder
    /\ \A i \in DOMAIN services, j \in DOMAIN services :
          services[i] = services[j] => i = j

\* get_deployment_order on a requested list, then the run over its result
SpecEndToEnd == InitEndToEnd /\ [][NextEndToEnd]_vars

(***************************************************************************)
(* Properties of the run and of the provisioning sequence                  *)
(***************************************************************************)

\* a service of the plan raised out of deploy_single_service
ServiceFailure == error.kind # "none" /\ error.state # "none"

\* every request that provisions service s
ProvisioningCalls(s) ==
    s \in (calls.found \cup calls.create \cup calls.taskWait
             \cup calls.start \cup calls.readyWait)

\* C2: once a service of the plan has failed the run is over: the services
\* handed to deploy_single_service are the plan up to the failed one, no
\* request was made for a later entry, nothing is torn down, the services
\* deployed before still have their containers, and no step follows.
C2_FirstFailureAbortsRun ==
    ServiceFailure =>
        /\ pc \in {"svc_failed", "run_failed"}
        /\ attempted = SubSeq(plan, 1, cur)
        /\ deployed = SubSeq(plan, 1, cur - 1)
        /\ \A j \in (cur + 1)..Len(plan) : ~ProvisioningCalls(plan[j])
        /\ calls.destroy = {}
        /\ Range(deployed) \subseteq cluster.containers
        /\ pc = "run_failed" => ~ENABLED NextDeploy

\* the second of three services failed
C2_Witness ==
    /\ pc = "run_failed"
    /\ ServiceFailure
    /\ Len(plan) = 3
    /\ cur = 2
    /\ deployed = <<plan[1]>>
    /\ attempted = <<plan[1], plan[2]>>

\* C3: a poll of _wait_for_task that sees status 'stopped' with an exit
\* status other than 'OK' ends the wait on that very poll with a
\* DeploymentError: no sleep and no further poll follow it.
C3_FailedTaskRaisesAtOnce ==
    (w.kind = "task" /\ w.status = "stopped_fail") =>
        /\ pc \in {"svc_failed", "run_failed"}
        /\ error.at = "task_failed"

\* C4: a waiter whose predicate never succeeds raises the timeout after
\* exactly `timeout` polls, and one whose predicate first succeeds on poll k
\* returns after exactly k polls, k <= timeout.
C4_WaiterPollCount ==
    /\ (pc = "svc_failed" /\ error.at \in {"task_timeout", "ready_timeout"}) =>
           /\ w.polls = w.timeout
           /\ w.sleeps = w.timeout
           /\ w.okAt = 0
    /\ pc \in {"wt_return", "wr_return"} =>
           /\ w.okAt = w.polls
           /\ w.polls \in 1..w.timeout
           /\ w.sleeps = w.polls - 1
    /\ w.okAt # 0 => pc \in {"wt_return", "wr_return"}

\* the scenario of the spec: deadline 3, never successful, three polls
C4_Witness ==
    /\ pc = "svc_failed"
    /\ error.at = "task_timeout"
    /\ w.timeout = 3
    /\ w.polls = 3

\* C5: when the existence query found the container, no creation request
\* is submitted for the service and no creation task awaited, and the
\* readiness wait is (about to be) entered for it.
C5_ExistingSkipsCreation ==
    \A s \in calls.found :
        /\ s \notin calls.create
        /\ s \notin calls.taskWait
        /\ \/ s \in calls.readyWait
           \/ s = Cur /\ pc \in {"cc_existing", "wr_entry"}

\* the readiness wait polls a container that was found to exist
C5_Witness ==
    /\ pc = "wr_sleep"
    /\ Cur \in calls.found
    /\ Cur \in calls.readyWait
    /\ Cur \notin calls.create
    /\ w.polls >= 1

PastWaitingReady ==
    {"BootstrappingRuntime", "UploadingDescriptor", "StartingWorkload", "Running"}

\* C6: a service is past WaitingReady only if the last poll of its
\* readiness wait saw status 'running' and a successful probe; a service
\* whose wait failed never was past it.
C6_ReadyNeedsRunningAndProbe ==
    /\ (ProvState(pc) \in PastWaitingReady \/ error.state \in PastWaitingReady) =>
           /\ w.kind = "ready"
           /\ w.status = "running"
           /\ w.probe = "ok"
    /\ (w.kind = "ready" /\ w.polls > 0 /\ ~(w.status = "running" /\ w.probe = "ok")) =>
           ProvState(pc) \in {"WaitingReady", "Failed", "none"}

\* the wait ended on a later poll than the first
C6_Witness ==
    /\ pc = "wr_return"
    /\ w.polls > 1
    /\ w.status = "running"
    /\ w.probe = "ok"

InstallReached ==
    \/ pc \in {"bs_install", "up_mkdir", "up_cat", "dp_up", "svc_done"}
    \/ bs.installed > 0

\* C7: at most two probes, one DNS rewrite and one mirror switch per
\* service; the rewrite follows the first failed probe, the re-probe
\* follows the rewrite, the mirror switch follows the failed re-probe, and
\* installation begins after a failed first probe only with exactly one
\* rewrite and two probes made.
C7_RemediationEscalation ==
    /\ bs.probes <= 2
    /\ bs.rewrites <= 1
    /\ bs.mirrors <= 1
    /\ bs.rewrites = 1 => (bs.probe1 = "fail" /\ bs.probes >= 1)
    /\ bs.probes = 2 => (bs.probe1 = "fail" /\ bs.rewrites = 1)
    /\ bs.mirrors = 1 => (bs.probe2 = "fail" /\ bs.probes = 2)
    /\ (bs.probe1 = "fail" /\ pc \notin {"bs_debug1", "bs_debug2", "bs_debug3", "bs_dns1"})
           => bs.rewrites = 1
    /\ (InstallReached /\ bs.probe1 = "fail") =>
           /\ bs.rewrites = 1
           /\ bs.probes = 2
           /\ bs.mirrors = (IF bs.probe2 = "fail" THEN 1 ELSE 0)

\* both probes failed, the mirror was switched, installation is under way
C7_Witness ==
    /\ pc = "bs_install"
    /\ bs.probe1 = "fail"
    /\ bs.probe2 = "fail"
    /\ bs.probes = 2
    /\ bs.rewrites = 1
    /\ bs.mirrors = 1
    /\ bs.installed >= 1

\* the attempted services that are neither deployed nor failed
InProvisioning ==
    {s \in Range(attempted) :
        /\ s \notin Range(deployed)
        /\ ~(s = Cur /\ pc \in {"svc_done", "svc_failed", "run_failed"})}

\* C12: the services are provisioned in plan order, one at a time: the
\* services attempted so far are a prefix of the plan, at most one of them is
\* neither deployed nor failed, and while entry i is being provisioned the
\* deployed services are exactly the entries before it.
C12_OneAtATimeInPlanOrder ==
    /\ cur \in 0..Len(plan)
    /\ attempted = SubSeq(plan, 1, cur)
    /\ deployed = SubSeq(plan, 1, Len(deployed))
    /\ Cardinality(InProvisioning) <= 1
    /\ cur >= 1 =>
          /\ Len(deployed) \in {cur - 1, cur}
          /\ ProvState(pc) \notin {"none", "Failed"} =>
                 deployed = SubSeq(plan, 1, cur - 1)
          /\ Len(deployed) = cur => pc \in {"svc_loop", "run_done"}

\* the second entry is being provisioned after the first one was deployed
C12_Witness ==
    /\ cur = 2
    /\ ProvState(pc) = "BootstrappingRuntime"
    /\ InProvisioning = {plan[2]}
    /\ deployed = <<plan[1]>>
    /\ Len(plan) = 3

\* C13 as stated: a readiness wait begins only for a container for which a
\* start command was issued, on the path of an existing container as on the
\* path of a created one.
C13_StartBeforeReadyWait ==
    \A s \in calls.readyWait : s \in calls.start

\* C13 amended: a readiness wait for a created container begins only after
\* a start command was issued for it; for a container found existing the
\* readiness wait begins without any start command.
C13_StartOnlyAfterCreation ==
    \A s \in calls.readyWait :
        /\ s \in calls.found \/ s \in calls.start
        /\ s \in calls.create => s \in calls.start
        /\ s \in calls.found => s \notin calls.start

\* one service went through creation and start, the next one was found
\* existing, and both reached the readiness wait
C13_Witness ==
    /\ \E s \in calls.readyWait : s \in calls.create /\ s \in calls.start
    /\ \E s \in calls.readyWait : s \in calls.found /\ s \notin calls.start

\* the part of the per-service sequence a logged command belongs to:
\* 1 bootstrap, 2 upload, 3 workload start
Stage(step) ==
    CASE step \in {"bs_dns1", "bs_dns2", "bs_mirror1", "bs_mirror2",
                   "bs_install"} -> 1
      [] step \in {"up_mkdir", "up_cat"} -> 2
      [] step = "dp_up" -> 3

\* the commands of `steps` before position j that succeeded, by name
OkBefore(j, name) ==
    {i \in 1..(j - 1) : bs.steps[i].step = name /\ bs.steps[i].ok}

\* the readiness wait of the service in progress has returned successfully
ReadyWaitSucceeded ==
    /\ Cur \in calls.readyWait
    /\ w.kind = "ready"
    /\ w.status = "running"
    /\ w.probe = "ok"

LastStep == bs.steps[Len(bs.steps)]

\* C14: within a service the steps come in the order readiness wait,
\* bootstrap, upload, workload start: a bootstrap command runs only after the
\* readiness wait succeeded, every command only after the one before it
\* succeeded, the upload only after all bootstrap commands succeeded, the
\* workload start only after the upload succeeded, and the service counts as
\* deployed only after the workload start succeeded.
C14_StepsInOrder ==
    /\ \A i \in DOMAIN bs.steps, j \in DOMAIN bs.steps :
          i < j => /\ Stage(bs.steps[i].step) <= Stage(bs.steps[j].step)
                   /\ bs.steps[i].ok
    /\ (bs # NoBootstrap \/ ProvState(pc) \in PastWaitingReady)
          => ReadyWaitSucceeded
    /\ \A j \in DOMAIN bs.steps :
          /\ Stage(bs.steps[j].step) >= 2 =>
                Cardinality(OkBefore(j, "bs_install")) = NumInstallCommands
          /\ bs.steps[j].step = "dp_up" =>
                /\ OkBefore(j, "up_mkdir") # {}
                /\ OkBefore(j, "up_cat") # {}
    /\ (pc = "svc_done" \/ (cur >= 1 /\ Len(deployed) = cur)) =>
          /\ bs.steps # <<>>
          /\ LastStep.step = "dp_up"
          /\ LastStep.ok

\* a service is deployed after a bootstrap that needed the DNS rewrite
C14_Witness ==
    /\ pc = "svc_done"
    /\ bs.rewrites = 1
    /\ Len(bs.steps) = 2 + NumInstallCommands + 3
    /\ \A i \in DOMAIN bs.steps : bs.steps[i].ok

\* C15: the bootstrap commands run in their fixed order, and the first one
\* that fails, by exit code or by timeout, is the last command of the
\* service: no later bootstrap command, no upload and no workload start is
\* issued, the service fails with a deployment error and no later service is
\* attempted.
C15_BootstrapFailureAborts ==
    /\ \A j \in DOMAIN bs.steps :
          /\ bs.steps[j].step = "bs_install" =>
                /\ bs.steps[j].n = Cardinality(OkBefore(j, "bs_install")) + 1
                /\ bs.steps[j].n <= NumInstallCommands
          /\ ~bs.steps[j].ok =>
                /\ j = Len(bs.steps)
                /\ pc \in {"svc_failed", "run_failed"}
                /\ error.kind = "ProxmoxDeploymentError"
                /\ error.cause \in {"nonzero", "timeout"}
    /\ error.at \in {"install", "dns_rewrite", "mirror_switch"} =>
          /\ pc \in {"svc_failed", "run_failed"}
          /\ bs.steps # <<>>
          /\ ~LastStep.ok
          /\ Stage(LastStep.step) = 1
          /\ \A i \in DOMAIN bs.steps : Stage(bs.steps[i].step) = 1
          /\ LastStep.n = bs.installed
          /\ Cur \notin Range(deployed)
          /\ Len(attempted) = cur

\* the fifth install command timed out in the first of three services and
\* the run is over
C15_Witness ==
    /\ pc = "run_failed"
    /\ error.at = "install"
    /\ error.cause = "timeout"
    /\ bs.installed = 5
    /\ Len(bs.steps) = 5
    /\ cur = 1
    /\ Len(plan) = 3

\* C16 as stated: a command that ends with a non-zero exit code is a hard
\* error, and a command that times out raises an error of another kind than
\* a command that fails.
C16_TimeoutKindDistinct ==
    /\ \A j \in DOMAIN bs.steps :
          ~bs.steps[j].ok => pc \in {"svc_failed", "run_failed"}
    /\ error.cause = "timeout" => error.kind # ExecErrorKind("nonzero")

\* the two documented shapes of container.json (spec section 3)
MatchesNested(raw) ==
    /\ "container" \in raw.top
    /\ NestedRequired \subseteq raw.inner
    /\ ResourcesRequired \subseteq raw.res

MatchesFlat(raw) == (FlatRequired \cup FlatDefaulted) \subseteq raw.top

\* C17 as stated: when the run fails on a container spec that matches
\* neither shape, no cluster mutation has been attempted: no bridge creation,
\* no container creation or start, no command in any container.
C17_ShapeErrorBeforeMutation ==
    error.at = "shape" =>
        /\ calls.bridge = 0
        /\ calls.create = {}
        /\ calls.start = {}
        /\ calls.exec = {}

\* flat_config holds every key of the canonical container spec
Canonical(keys) == (FlatRequired \cup FlatDefaulted) \subseteq keys

\* C18 as stated: a container spec that matches neither shape ends in an
\* error: what _create_container works on is the canonical spec, and no
\* creation request is built from default values.
C18_NeitherShapeAlwaysErrors ==
    /\ (cfg.loaded /\ pc = "cc_entry" /\ Canonical(cfg.keys)) =>
          MatchesNested(cfg.raw) \/ MatchesFlat(cfg.raw)
    /\ (cfg.loaded /\ pc \notin {"svc_begin", "cc_entry", "svc_failed",
                                  "run_failed"}) => Canonical(cfg.keys)
    /\ cfg.defaults = {}

\* a step of the network preflight: `issued` a bridge creation request was
\* sent, `returned` the interface query came back
NetworkStepIdempotent ==
    LET issued == calls'.bridge = calls.bridge + 1
        returned == ~(pc' = "run_failed" /\ error'.cause = "query")
    IN  /\ calls'.bridge \in {calls.bridge, calls.bridge + 1}
        /\ returned => (issued <=> ~cluster.bridge)
        /\ (~returned) => ~issued
        /\ (cluster'.bridge # cluster.bridge) => issued
        /\ cluster.bridge => (cluster' = cluster /\ calls' = calls)

\* a step of the storage preflight and of what follows it
StorageStepHarmless ==
    /\ pc = "storage" =>
          /\ pc' \in {"storage_ok", "storage_warn"}
          /\ error' = NoError
          /\ cluster' = cluster
          /\ calls' = calls
    /\ pc \in {"storage_ok", "storage_warn"} =>
          /\ pc' = "svc_loop"
          /\ error' = NoError

\* C19: the network preflight issues exactly one bridge creation request when
\* its interface query returns and no interface has the bridge name, and
\* none otherwise; with the bridge present it changes nothing on the node.
C19_BridgeCreatedIffAbsent ==
    /\ [](calls.bridge <= 1)
    /\ [][pc = "net" => NetworkStepIdempotent]_vars

\* the preflight found the bridge and went on without a request
C19_Witness ==
    /\ pc = "storage"
    /\ cluster.bridge
    /\ calls.bridge = 0
    /\ plan # <<>>

\* C20: whatever the storage check finds, setup_storage returns without an
\* error and without touching the node, and the loop over the plan begins.
C20_StorageNeverBlocks ==
    /\ [](error.at # "storage")
    /\ [][StorageStepHarmless]_vars

\* the storage check failed, and the loop over the plan can begin
C20_Witness ==
    /\ pc = "storage_warn"
    /\ error = NoError
    /\ ENABLED BeginServices

\* C21: setup_networking and then setup_storage are called exactly once
\* in a run, before the first service is handed to deploy_single_service,
\* whatever the length of the plan, and never again between services.
C21_PreflightOnce ==
    /\ pre.net <= 1
    /\ pre.storage <= pre.net
    /\ pc \in {"net", "connect"} => pre = NoPreflight
    /\ (cur >= 1 \/ pc \in {"svc_loop", "run_done"}) =>
          pre = [net |-> 1, storage |-> 1]
    /\ pre.storage = 0 => (attempted = <<>> /\ calls.create = {}
                             /\ calls.start = {} /\ calls.exec = {})

\* the third service of the plan is in its bootstrap, the preflight has run
\* once
C21_Witness ==
    /\ cur = 3
    /\ deployed = SubSeq(plan, 1, 2)
    /\ ProvState(pc) = "BootstrappingRuntime"
    /\ pre = [net |-> 1, storage |-> 1]

\* seconds slept by the waiter so far: one time.sleep(1) per sleep
Elapsed == w.sleeps

NonTerminalStates ==
    {"Pending", "ContainerExisting", "ContainerCreating", "ContainerStarting",
     "WaitingReady", "BootstrappingRuntime", "UploadingDescriptor",
     "StartingWorkload"}

\* some step of the run takes the service in progress to Failed
FailEnabled == ENABLED (NextDeploy /\ pc' = "svc_failed")

\* the positions that have no failing step of their own, with the largest
\* number of steps after which a position with a failing step is reached
\* (0 for every other position)
StepsToFailure ==
    CASE pc = "cc_exists" -> 2
      [] pc \in {"cc_existing", "cc_return"} -> 1
      [] pc \in {"wt_loop", "wr_loop"} /\ w.i < w.timeout
            -> 2 * (w.timeout - w.i)
      [] pc \in {"wt_sleep", "wr_sleep"} -> 2 * (w.timeout - w.i) - 1
      [] pc = "bs_clean1" -> 6
      [] pc = "bs_clean2" -> 5
      [] pc = "bs_probe1" -> 4
      [] pc = "bs_debug1" -> 3
      [] pc = "bs_debug2" -> 2
      [] pc \in {"bs_debug3", "bs_probe2"} -> 1
      [] OTHER -> 0

\* a step from a position without a failing step stays within the service
\* and comes closer to a position that has one
TowardsFailure ==
    (ProvState(pc) \in NonTerminalStates /\ StepsToFailure > 0) =>
        /\ ProvState(pc') \in NonTerminalStates
        /\ StepsToFailure' < StepsToFailure

\* a step from Running or Failed leaves the service: it is no provisioning
\* step, and it changes neither the node nor the requests issued
TerminalStep ==
    ProvState(pc) \in {"Running", "Failed"} =>
        /\ ProvState(pc') = "none"
        /\ cur' = cur
        /\ cluster' = cluster
        /\ calls' = calls
        /\ bs' = bs

\* C25: Running and Failed are terminal for a service (the next step leaves
\* the service, which is never provisioned again in the run, and a failed
\* run makes no further step), and Failed is reachable from every reachable
\* state of a service in a non-terminal provisioning state: such a state has
\* a failing step, or every step from it leads closer to one that has.
C25_TerminalAndFailedReachable ==
    /\ [][TerminalStep]_vars
    /\ [][pc # "run_failed" /\ cur' >= cur]_vars
    /\ [](ProvState(pc) # "none" =>
             /\ Cardinality({i \in DOMAIN attempted : attempted[i] = Cur}) = 1
             /\ ProvState(pc) # "Running" => Cur \notin Range(deployed))
    /\ []((ProvState(pc) \in NonTerminalStates /\ StepsToFailure = 0)
             => FailEnabled)
    /\ [][TowardsFailure]_vars

\* the last non-terminal state has led to Failed
C25_Witness ==
    /\ pc = "svc_failed"
    /\ error.state = "StartingWorkload"
    /\ cur = 2
    /\ deployed = <<plan[1]>>

\* the commands that rewrite /etc/resolv.conf or /etc/apt/sources.list
Remediations == {"bs_dns1", "bs_dns2", "bs_mirror1", "bs_mirror2"}

\* C26: when the first connectivity probe succeeds, it is the only probe of
\* the bootstrap, neither resolv.conf nor sources.list is rewritten, and the
\* next command is the first one of the installation.
C26_FirstProbeOkInstalls ==
    bs.probe1 = "ok" =>
        /\ bs.probes = 1
        /\ bs.probe2 = "none"
        /\ bs.rewrites = 0
        /\ bs.mirrors = 0
        /\ \A i \in DOMAIN bs.steps : bs.steps[i].step \notin Remediations
        /\ bs.steps # <<>> => bs.steps[1] = [step |-> "bs_install", n |-> 1,
                                              ok |-> bs.steps[1].ok]
        /\ ProvState(pc) = "BootstrappingRuntime" => pc = "bs_install"

\* the first probe succeeded and the service got deployed
C26_Witness ==
    /\ bs.probe1 = "ok"
    /\ bs.probes = 1
    /\ pc = "svc_done"
    /\ Len(bs.steps) = NumInstallCommands + 3

\* the container a complete document describes (spec section 3,
\* ContainerSpec): resources, the set of feature flags, the mounts in order
Described(raw) ==
    IF "container" \in raw.top
    THEN [cpu |-> raw.val.cpu, memory |-> raw.val.memory, disk |-> raw.val.disk,
          features |-> IF "features" \in raw.inner
                       THEN Range(raw.val.features) ELSE {},
          mounts |-> IF "nfs_mounts" \in raw.inner THEN raw.val.mounts
                     ELSE <<>>]
    ELSE [cpu |-> raw.val.cpu, memory |-> raw.val.memory, disk |-> raw.val.disk,
          features |-> IF "features" \in raw.top
                       THEN Range(raw.val.features) ELSE {},
          mounts |-> IF "mounts" \in raw.top THEN raw.val.mounts ELSE <<>>]

\* two documents, of either shape, that describe the same container
SameContainer(d, e) ==
    /\ MatchesNested(d) \/ MatchesFlat(d)
    /\ MatchesNested(e) \/ MatchesFlat(e)
    /\ Described(d) = Described(e)

\* C27: the creation request submitted for a container.json is the request
\* that every document describing the same container, nested or flat, leads
\* to; once the request is submitted nothing of the document is left, so
\* what the run does afterwards does not depend on the shape.
C27_ShapesInterchangeable ==
    /\ cfg.request # NoRequest =>
          \A d \in RawSpecs :
             SameContainer(d, cfg.raw) =>
                /\ Normalise(d).ok
                /\ cfg.request = CreateParams(Cur, Normalise(d).keys,
                                              Normalise(d).flat)
    /\ ProvState(pc) \in {"ContainerStarting", "WaitingReady",
                          "BootstrappingRuntime", "UploadingDescriptor",
                          "StartingWorkload", "Running"} => cfg = NoCfg

\* the request of a nested document with mounts, which a flat document of
\* the model describes as well
C27_Witness ==
    /\ pc = "wt_entry"
    /\ MatchesNested(cfg.raw)
    /\ Len(cfg.request.mp) = 2
    /\ cfg.request.cores = 2
    /\ \E d \in RawSpecs : MatchesFlat(d) /\ SameContainer(d, cfg.raw)

\* C28 as stated: every feature flag the container spec declares is in the
\* features field of the creation request.
C28_DeclaredFeaturesRequested ==
    cfg.request # NoRequest =>
        Range(cfg.flat.features) \subseteq Range(cfg.request.features)

\* C22 as stated: the deploy command exits with code 0 when the run succeeded
\* or the user declined the confirmation, and with code 1 after a validation
\* or a deployment error.
C22_ExitCodes ==
    cmd.exited =>
        /\ cmd.outcome \in {"success", "cancelled"} => cmd.code = 0
        /\ cmd.outcome \in {"validation_error", "deployment_error"} =>
              cmd.code = 1

\* C23 as stated: the file written in the container has exactly the bytes of
\* the content, whatever the content is.
C23_UploadExact ==
    up.written => up.file = up.content

\* C29 as stated: every call of the resolver is made on a list that
\* validate_services has checked and accepted.
C29_ValidatedBeforeResolve ==
    \A i \in DOMAIN cmd.resolved : cmd.resolved[i].validated

\* deploy_services_impl, and with it the ProxmoxDeployer, is being called or
\* has been called
OrchestratorReached == cmd.pc = "impl" \/ cmd.orchestrated

\* C38: the deploy command calls the orchestrator only after validate_all
\* has passed (and validate_services, when --services is given), without
\* --dry-run and after the user answered yes; with --dry-run, or when the
\* user declines or interrupts the prompt, the orchestrator is never
\* called, so nothing is issued to the cluster, and the command ends
\* without it.
C38_OrchestratorOnlyWhenConfirmed ==
    /\ OrchestratorReached =>
          /\ cmd.checked
          /\ cmd.services # <<>> => cmd.validated
          /\ Len(cmd.resolved) = 1
          /\ ~cmd.dry_run
          /\ cmd.answer = "yes"
    /\ (cmd.dry_run \/ cmd.answer \in {"no", "interrupt"}) => ~OrchestratorReached
    /\ cmd.outcome \in {"dry_run", "cancelled", "interrupted", "validation_error",
                        "nothing_to_deploy"} => ~OrchestratorReached
    /\ cmd.outcome \in {"success", "deployment_error"} <=> cmd.orchestrated
    /\ cmd.answer # "none" => ~cmd.dry_run

\* a dry run of two validated services has ended after the summary: no
\* prompt, no orchestrator
C38_Witness ==
    /\ cmd.exited
    /\ cmd.dry_run
    /\ cmd.outcome = "dry_run"
    /\ cmd.checked
    /\ cmd.validated
    /\ cmd.list = <<"homepage", "pihole">>
    /\ cmd.answer = "none"
    /\ ~cmd.orchestrated

\* C31: once the creation task of a service has stopped with a non-OK exit
\* status, the service does not proceed: the waiter only polls and sleeps
\* until its bound, the service then fails with a ProxmoxDeploymentError
\* and the run with it; the container is never started, no readiness wait
\* and no command in the container take place, and the service is never
\* deployed.
C31_FailedCreationNeverProceeds ==
    (w.kind = "task" /\ w.ended) =>
        /\ pc \in {"wt_loop", "wt_sleep", "svc_failed", "run_failed"}
        /\ w.i <= w.timeout
        /\ pc \in {"svc_failed", "run_failed"} =>
              /\ error.kind = "ProxmoxDeploymentError"
              /\ error.state = "ContainerCreating"
              /\ w.polls = w.timeout
        /\ Cur \notin calls.start
        /\ Cur \notin calls.readyWait
        /\ Cur \notin calls.exec
        /\ Cur \notin Range(deployed)
        /\ bs = NoBootstrap

\* the second service of the plan: its creation task failed on the first
\* poll and the run has ended on it
C31_Witness ==
    /\ pc = "run_failed"
    /\ cur = 2
    /\ w.kind = "task"
    /\ w.ended
    /\ error.kind = "ProxmoxDeploymentError"
    /\ Cur \in calls.create
    /\ Cur \notin calls.start
    /\ deployed = <<plan[1]>>

\* the mounts the loaded container.json declares, in their order
DeclaredMounts == Described(cfg.raw).mounts

\* C33: the creation request holds one mount point per declared mount, in
\* the declared order: mp<i> has the source and the target of the i-th
\* mount (0-based) and is read-only exactly when that mount is declared
\* readonly; no mount is dropped, duplicated or reordered.
C33_MountsInDeclaredOrder ==
    cfg.request # NoRequest =>
        /\ Len(cfg.request.mp) = Len(DeclaredMounts)
        /\ \A i \in DOMAIN DeclaredMounts :
              /\ cfg.request.mp[i].source = DeclaredMounts[i].source
              /\ cfg.request.mp[i].target = DeclaredMounts[i].target
              /\ cfg.request.mp[i].ro <=>
                    ("readonly" \in DOMAIN DeclaredMounts[i]
                       /\ DeclaredMounts[i].readonly)

\* a flat document with two mounts, the second one readonly
C33_Witness ==
    /\ pc = "wt_entry"
    /\ MatchesFlat(cfg.raw)
    /\ Len(DeclaredMounts) = 2
    /\ cfg.request.mp[1] = [source |-> "/mnt/media", target |-> "/media",
                            ro |-> FALSE]
    /\ cfg.request.mp[2] = [source |-> "/mnt/backup", target |-> "/backup",
                            ro |-> TRUE]

\* C35: the readiness wait never fails early: an error of the status query
\* or of the probe on a poll only leads to the one-second sleep and the
\* next poll, and whenever the provisioning of a service fails in the
\* WaitingReady state the error is the not-ready timeout, raised after
\* exactly `timeout` unsuccessful polls
C35_OnlyNotReadyTimeout ==
    /\ (pc = "wr_sleep" /\ w.kind = "ready") => ~IsReady(w.status, w.probe)
    /\ error.state = "WaitingReady" =>
          /\ error.at = "ready_timeout"
          /\ w.kind = "ready"
          /\ w.polls = w.timeout
          /\ w.okAt = 0

\* the state the service in progress is in, or was in when it failed
StateReached == IF error.state # "none" THEN error.state ELSE ProvState(pc)

\* the creation request of the service in progress is submitted or about
\* to be
CreationRequested == Cur \in calls.create \/ pc = "cc_post"

\* C36: once the existence query of a service is over, the creation request
\* is submitted exactly when the query did not return, and the service is
\* on the skip path exactly when it did; the query returns only for a
\* container that exists, and a query that fails on an existing container
\* counts as 'does not exist'.
C36_CreationIffQueryFailed ==
    /\ \A s \in calls.found : s \in cluster.containers
    /\ \A s \in Range(deployed) : s \in calls.create <=> s \notin calls.found
    /\ (cur \in DOMAIN plan /\ StateReached \notin {"Pending", "none"}) =>
          (CreationRequested <=> Cur \notin calls.found)
    /\ pc = "cc_existing" <=>
          (cur \in DOMAIN plan /\ StateReached = "ContainerExisting")
    /\ pc = "cc_existing" => Cur \in calls.found /\ ~CreationRequested

\* the query failed for a container that exists, and the creation request
\* was submitted all the same
C36_Witness ==
    /\ pc = "wt_entry"
    /\ Cur \in cluster.containers
    /\ Cur \in calls.create
    /\ Cur \notin calls.found
    /\ cfg.request.vmid # "none"

\* the commands of the remediation, by their position in lines 284-324
CleanUps == {"bs_clean1", "bs_clean2"}

Probes == {"bs_probe1", "bs_probe2"}

Diagnostics == {"bs_debug1", "bs_debug2", "bs_debug3"}

Repairs == {"bs_dns1", "bs_dns2", "bs_mirror1", "bs_mirror2"}

\* the position after a diagnostic or repair command that succeeded
AfterSuccess(p) ==
    CASE p = "bs_debug1" -> "bs_debug2"
      [] p = "bs_debug2" -> "bs_debug3"
      [] p = "bs_debug3" -> "bs_dns1"
      [] p = "bs_dns1" -> "bs_dns2"
      [] p = "bs_dns2" -> "bs_probe2"
      [] p = "bs_mirror1" -> "bs_mirror2"
      [] p = "bs_mirror2" -> "bs_install"
      [] OTHER -> p

\* a command at one of the positions `strict` either succeeds, and the next
\* command in order follows, or fails the service; a probe or a clean-up
\* command never fails it
FailurePropagatesAt(strict) ==
    /\ pc \in strict => pc' \in {AfterSuccess(pc), "svc_failed"}
    /\ pc \in CleanUps \cup Probes => (pc' # "svc_failed" /\ error' = error)

\* a DNS-rewrite or mirror-switch command that failed is the last command
\* of the service: the service has failed with its error and no
\* installation command was issued
RepairFailureIsFinal ==
    \A j \in DOMAIN bs.steps :
        (bs.steps[j].step \in Repairs /\ ~bs.steps[j].ok) =>
            /\ j = Len(bs.steps)
            /\ pc \in {"svc_failed", "run_failed"}
            /\ error.at \in {"dns_rewrite", "mirror_switch"}
            /\ error.state = "BootstrappingRuntime"
            /\ bs.installed = 0
            /\ \A i \in DOMAIN bs.steps : bs.steps[i].step # "bs_install"
            /\ Cur \notin Range(deployed)

\* C37 as stated: within the remediation only failures of the probes and of
\* the initial clean-up commands are tolerated: every other command of the
\* remediation that fails, fails the service, and after a failed DNS-rewrite
\* or mirror-switch command no installation command is executed.
C37_OnlyProbesAndCleanUpsTolerated ==
    /\ [][FailurePropagatesAt(Diagnostics \cup Repairs)]_vars
    /\ []RepairFailureIsFinal

\* a diagnostic command never fails the service
DiagnosticsTolerated ==
    pc \in Diagnostics => (pc' # "svc_failed" /\ error' = error)

\* C37 amended: failures of the probes, of the clean-up commands and of the
\* three diagnostic commands run after a failed first probe are tolerated;
\* a DNS-rewrite or mirror-switch command that fails, fails the service, and
\* no installation command is executed.
C37_RepairFailurePropagates ==
    /\ [][FailurePropagatesAt(Repairs)]_vars
    /\ [][DiagnosticsTolerated]_vars
    /\ []RepairFailureIsFinal

\* both probes failed and the second mirror-switch command failed: the run
\* is over and nothing was installed
C37_Witness ==
    /\ pc = "run_failed"
    /\ error.at = "mirror_switch"
    /\ bs.probe1 = "fail"
    /\ bs.probe2 = "fail"
    /\ bs.installed = 0
    /\ Len(bs.steps) = 4
    /\ LastStep.step = "bs_mirror2"
    /\ ~LastStep.ok

\* C30: whatever exception ends the provisioning of a service (a
\* ProxmoxDeploymentError of an inner function, a KeyError, an I/O error, a
\* timeout), deploy_single_service is left with a ProxmoxDeploymentError and
\* with no other type.
C30_SingleErrorKind ==
    /\ error.kind \in {"none", "ProxmoxDeploymentError"}
    /\ (pc = "svc_failed" \/ error.state # "none") =>
          /\ error.kind = "ProxmoxDeploymentError"
          /\ error.raised \in {"ProxmoxDeploymentError", "KeyError", "OSError"}

\* a KeyError of a malformed container.json left as ProxmoxDeploymentError
C30_Witness ==
    /\ pc = "svc_failed"
    /\ error.raised = "KeyError"
    /\ error.kind = "ProxmoxDeploymentError"
    /\ error.state = "Pending"

(***************************************************************************)
(* Properties of the resolver                                              *)
(***************************************************************************)
Requested == Range(services)

\* A's loaded descriptor lists B as a required dependency
Declares(A, B) == info[A].ok /\ B \in Range(info[A].dependencies)

\* number of occurrences of x in seq
Count(seq, x) == Cardinality({i \in 1..Len(seq) : seq[i] = x})

\* index of the first occurrence of x in seq (0 when absent)
Pos(seq, x) ==
    IF x \in Range(seq) THEN CHOOSE i \in 1..Len(seq) :
                                  seq[i] = x /\ \A j \in 1..(i - 1) : seq[j] # x
    ELSE 0

Before(B, A) ==
    /\ A \in Range(ordered)
    /\ B \in Range(ordered)
    /\ Pos(ordered, B) < Pos(ordered, A)

\* the requested services reachable from the set S over declared edges
RECURSIVE Closure(_)
Closure(S) ==
    LET T == S \cup {B \in Requested : \E A \in S : Declares(A, B)}
    IN  IF T = S THEN S ELSE Closure(T)

\* X depends on Y through a chain of one or more declared edges among the
\* requested services
DependsOn(X, Y) ==
    Y \in Closure({B \in Requested : Declares(X, B)})

\* seq without the later repetitions of a name
RECURSIVE Dedup(_)
Dedup(seq) ==
    IF seq = <<>> THEN <<>>
    ELSE LET front == SubSeq(seq, 1, Len(seq) - 1)
             last == seq[Len(seq)]
         IN  IF last \in Range(front) THEN Dedup(front)
             ELSE Append(Dedup(front), last)

\* C1 as stated: in the returned plan every requested dependency B of a
\* requested service A (another service) precedes A, for every dependency
\* relation.
C1_OrderingAllRelations ==
    rpc = "done" =>
        \A A \in Requested, B \in Requested :
            (A # B /\ Declares(A, B)) => Before(B, A)

\* C1 amended: in the returned plan every requested dependency B of a
\* requested service A precedes A, unless B itself depends (directly or
\* through other requested services) on A, i.e. the edge lies on a cycle.
C1_OrderingOffCycle ==
    rpc = "done" =>
        \A A \in Requested, B \in Requested :
            (Declares(A, B) /\ ~DependsOn(B, A)) => Before(B, A)

\* the scenario of the spec: vpn-gateway depends on pihole
C1_Witness ==
    /\ rpc = "done"
    /\ services = <<"vpn-gateway", "pihole">>
    /\ Declares("vpn-gateway", "pihole")
    /\ ~DependsOn("pihole", "vpn-gateway")
    /\ ordered = <<"pihole", "vpn-gateway">>

TwoCycle(A, B) == A # B /\ Declares(A, B) /\ Declares(B, A)

\* C8: with a cycle A->B->A among the requested services the resolver reaches
\* its return statement, and the returned plan holds A and B once each.
C8_CycleTerminates ==
    (rpc = "start" /\ \E A \in Requested, B \in Requested : TwoCycle(A, B))
        ~> (/\ rpc = "done"
            /\ \A A \in Requested, B \in Requested :
                   TwoCycle(A, B) => Count(ordered, A) = 1 /\ Count(ordered, B) = 1)

C8_Witness ==
    /\ rpc = "done"
    /\ \E A \in Requested, B \in Requested :
          /\ TwoCycle(A, B)
          /\ Count(ordered, A) = 1
          /\ Count(ordered, B) = 1
    /\ warned # {}

\* C9: the returned plan holds every requested name exactly once and no
\* other name.
C9_PlanIsRequestedOnce ==
    rpc = "done" =>
        \A n \in Names : Count(ordered, n) = (IF n \in Requested THEN 1 ELSE 0)

\* a repeated name, a self-dependency and a service without descriptor
C9_Witness ==
    /\ rpc = "done"
    /\ Len(services) > Cardinality(Requested)
    /\ \E n \in Requested : Declares(n, n)
    /\ \E n \in Requested : ~info[n].ok
    /\ Len(ordered) = Cardinality(Requested)

NoInternalEdges ==
    \A A \in Requested, B \in Requested : A # B => ~Declares(A, B)

\* C10 as stated: without a dependency between two requested services the
\* plan is the requested list itself.
C10_InputOrderExact ==
    (rpc = "done" /\ NoInternalEdges) => ordered = services

\* C10 amended: without a dependency between two requested services the
\* plan is the requested list in input order, a repeated name kept at its
\* first occurrence only.
C10_InputOrderFirstOccurrence ==
    (rpc = "done" /\ NoInternalEdges) => ordered = Dedup(services)

C10_Witness ==
    /\ rpc = "done"
    /\ NoInternalEdges
    /\ services = <<"authentik", "pihole", "authentik">>
    /\ ordered = <<"authentik", "pihole">>

\* C11: a declared dependency that is not in the requested list is dropped
\* when the graph is built: it is no edge of the graph, it is never visited,
\* never warned about and never part of the plan; a requested service whose
\* declared dependencies are all unrequested is planned as if it had none.
C11_UnrequestedDepsIgnored ==
    /\ rpc # "start" =>
          \A s \in DOMAIN service_deps :
              /\ Range(service_deps[s]) \subseteq Requested
              /\ Range(service_deps[s]) =
                     Range(info[s].dependencies) \cap Requested
    /\ \A i \in 1..Len(stack) : stack[i].service \in Requested
    /\ (Range(ordered) \cup visited \cup visiting \cup warned)
           \subseteq Requested
    /\ (rpc = "done" /\ NoInternalEdges) => ordered = Dedup(services)

\* the scenario of the spec: vpn-gateway depends on pihole, and only
\* vpn-gateway is requested
C11_Witness ==
    /\ rpc = "done"
    /\ services = <<"vpn-gateway">>
    /\ Declares("vpn-gateway", "pihole")
    /\ "pihole" \notin Requested
    /\ ordered = <<"vpn-gateway">>
    /\ warned = {}

\* the dependencies visit() will loop over for s (line 189), known from
\* the requested list and the descriptors before the graph is built
DepsToVisit(s) ==
    IF rpc = "start"
    THEN (IF get_service_info(s).ok
          THEN FilterDeps(get_service_info(s).dependencies, services)
          ELSE <<>>)
    ELSE DepsOf(s)

\* steps a frame of visit() still has to make by itself
FrameWork(f) ==
    IF f.phase = "entry" THEN 1
    ELSE 2 * (Len(DepsOf(f.service)) - f.k + 1) + 1

ExpansionWork(s) == 2 + 2 * Len(DepsToVisit(s))

\* the work of the frames 1..n of the stack
RECURSIVE StackWork(_)
StackWork(n) == IF n = 0 THEN 0 ELSE FrameWork(stack[n]) + StackWork(n - 1)

\* the work of expanding the services of S
RECURSIVE ExpansionsWork(_)
ExpansionsWork(S) ==
    IF S = {} THEN 0
    ELSE LET x == CHOOSE y \in S : TRUE
         IN  ExpansionWork(x) + ExpansionsWork(S \ {x})

\* an upper bound of the steps get_deployment_order has left: its remaining
\* loop iterations, the frames on the stack, the services not yet expanded
StepsLeft ==
    (IF rpc = "start" THEN 2 ELSE IF rpc = "loop" THEN 1 ELSE 0)
    + 2 * (Len(services) + 1 - top)
    + StackWork(Len(stack))
    + ExpansionsWork(Requested \ (visited \cup visiting))

\* a step of the resolver: the work left decreases; a service is expanded
\* (put on the traversal path, lines 186-191) only if it was never expanded
\* before, and appended to the plan only when its expansion ends
ExpandsOnce ==
    /\ StepsLeft' < StepsLeft
    /\ visited \subseteq visited'
    /\ \A s \in visiting' \ visiting :
          /\ s \notin visited
          /\ s \notin Range(ordered)
          /\ visiting' = visiting \cup {s}
    /\ ordered' # ordered =>
          \E s \in visiting \ Range(ordered) :
             /\ ordered' = Append(ordered, s)
             /\ visited' = visited \cup {s}
             /\ visiting' = visiting \ {s}

\* C32: get_deployment_order terminates on every requested list and every
\* dependency relation, self-dependencies and cycles included: every step
\* decreases a natural number and a step is possible until the return; a
\* service is expanded at most once and is in the plan at most once.
C32_TerminatesExpandingOnce ==
    /\ [][ExpandsOnce]_vars
    /\ [](StepsLeft >= 0)
    /\ [](rpc # "done" => ENABLED NextOrder)
    /\ [](rpc = "done" => StepsLeft = 0)
    /\ [](/\ visiting \cap visited = {}
          /\ Range(ordered) = visited
          /\ \A n \in Names : Count(ordered, n) <= 1)

\* a cycle over the three services, one of them also depending on itself
\* and requested twice
C32_Witness ==
    /\ rpc = "done"
    /\ Len(services) = 3
    /\ Cardinality(Requested) = 3
    /\ \E A \in Requested, B \in Requested, C \in Requested :
          /\ A # B /\ B # C /\ A # C
          /\ Declares(A, B) /\ Declares(B, C) /\ Declares(C, A)
          /\ Declares(A, A)
    /\ Len(ordered) = 3
    /\ warned # {}

\* no requested service depends on itself, directly or through other
\* requested services
Acyclic == \A A \in Requested : ~DependsOn(A, A)

\* C34: when the dependencies among the requested services have no cycle,
\* a service is handed to deploy_single_service only after each of its
\* requested dependencies has been deployed in this run, and for as long as
\* the run stays on it.
C34_DependenciesRunningFirst ==
    (Acyclic /\ cur >= 1) =>
        /\ plan = ordered
        /\ \A B \in Requested : Declares(Cur, B) => B \in Range(deployed)
        /\ \A i \in DOMAIN deployed : \A B \in Requested :
               Declares(deployed[i], B) =>
                  \E j \in 1..(i - 1) : deployed[j] = B

\* authentik needs vpn-gateway, which needs pihole; requested in the
\* opposite order; the run has reached authentik
C34_Witness ==
    /\ services = <<"authentik", "vpn-gateway", "pihole">>
    /\ Declares("authentik", "vpn-gateway")
    /\ Declares("vpn-gateway", "pihole")
    /\ Acyclic
    /\ pc = "svc_begin"
    /\ Cur = "authentik"
    /\ deployed = <<"pihole", "vpn-gateway">>

====
